---- MODULE Spec2Model ----
(***************************************************************************)
(* A model of the throttle rate limiter: the three algorithm engines       *)
(* (TokenBucketLimiter, FixedWindowLimiter, SlidingWindowLimiter), their   *)
(* state objects, InMemoryStorage, the lock capability and the             *)
(* CompoundLimiter.                                                        *)
(*                                                                         *)
(* Time is counted in clock ticks; TicksPerSecond ticks make one second,   *)
(* so that the fractional seconds TimeUtil.now() returns are kept.         *)
(* An absent value (null) is the empty sequence <<>>, a present value v    *)
(* is <<v>>.                                                               *)
(***************************************************************************)
EXTENDS Integers, Sequences, FiniteSets, TLC

\* ---------------------------------------------------------------- bounds
TicksPerSecond == 2
MaxTime == 5
MaxLimit == 2
MaxAmount == 2
MaxInterval == 2
MaxTokens == 3
MaxWaitTicks == 2
MaxAhead == 6

Horizon == MaxTime + MaxAhead

\* ---------------------------------------------------------------- arithmetic
Max(a, b) == IF a >= b THEN a ELSE b

Min(a, b) == IF a <= b THEN a ELSE b

\* Math.floor(a / b) for b > 0 (\div rounds towards minus infinity)
Floor(a, b) == a \div b

\* Math.ceil(a / b) for b > 0
Ceil(a, b) == -((-a) \div b)

\* seconds to ticks
Sec(s) == s * TicksPerSecond

\* ---------------------------------------------------------------- Rate
\* a bug: the wait is rounded down, not up
Rate_calculateTimeForTokens_roundedDown(l, tokens) == Floor(tokens * l.interval, l.amount)

\* a bug: the wait is the time to the next token, however many are needed
Rate_calculateTimeForTokens_nextToken(l, tokens) == Ceil(l.interval, l.amount)

\* Rate.calculateTimeForTokens: whole seconds needed to accumulate `tokens`
Rate_calculateTimeForTokens(l, tokens) == Ceil(tokens * l.interval, l.amount)

\* a bug: a token is credited as soon as its interval has begun
Rate_calculateNewTokensDuringInterval_roundedUp(l, duration) ==
  Ceil(duration * l.amount, Sec(l.interval))

\* Rate.calculateNewTokensDuringInterval: tokens added during `duration` ticks
Rate_calculateNewTokensDuringInterval(l, duration) ==
  Floor(duration * l.amount, Sec(l.interval))

\* ---------------------------------------------------------------- RateLimit
RateLimit(availableTokens, retryAfter, accepted, limit) ==
  [availableTokens |-> availableTokens, retryAfter |-> retryAfter,
   accepted |-> accepted, limit |-> limit]

\* a bug: a rejected RateLimit is returned like an accepted one
RateLimit_ensureAccepted_lenient(r) == [kind |-> "RateLimit", rateLimit |-> r]

\* RateLimit.ensureAccepted: throws RateLimitExceededError, which carries the
\* RateLimit, or returns this
RateLimit_ensureAccepted(r) ==
  IF ~ r.accepted
  THEN [kind |-> "RateLimitExceededError", rateLimit |-> r]
  ELSE [kind |-> "RateLimit", rateLimit |-> r]

\* ---------------------------------------------------------------- TokenBucket
\* new TokenBucket(id, burstSize, rate): tokens = burstSize, timer = now
NewTokenBucket(l, now) == [tokens |-> l.limit, timer |-> now]

\* a bug: the refill is not capped at the burst size
TokenBucket_getAvailableTokens_uncapped(l, bucket, now) ==
  bucket.tokens + Floor((now - bucket.timer) * l.amount, Sec(l.interval))

\* a bug: a timer set in the future counts as no time elapsed
TokenBucket_getAvailableTokens_clamped(l, bucket, now) ==
  Min(l.limit,
      bucket.tokens
        + Rate_calculateNewTokensDuringInterval(l, Max(0, now - bucket.timer)))

\* TokenBucket.getAvailableTokens
TokenBucket_getAvailableTokens(l, bucket, now) ==
  Min(l.limit,
      bucket.tokens + Rate_calculateNewTokensDuringInterval(l, now - bucket.timer))

\* TokenBucket.getExpirationTime (in ticks): Math.ceil(timer + refillTime) seconds
TokenBucket_getExpirationTime(l, bucket) ==
  Sec(Ceil(bucket.timer + Sec(Rate_calculateTimeForTokens(l, l.limit)), TicksPerSecond))

\* ---------------------------------------------------------------- Window
\* a bug: the window starts at the time of the call
AlignedStart_atNow(l, now) == now

\* a bug: the window starts at the next boundary
AlignedStart_roundedUp(l, now) == Ceil(now, Sec(l.interval)) * Sec(l.interval)

\* the window start aligned to the interval: Math.floor(now / interval) * interval
AlignedStart(l, now) == Floor(now, Sec(l.interval)) * Sec(l.interval)

\* new Window(id, interval, limit, 0, windowStart) of getOrCreateWindow
NewWindow(l, now) == [hitCount |-> 0, timer |-> AlignedStart(l, now)]

\* Window.getExpirationTime (in ticks)
Window_getExpirationTime(l, w) ==
  Sec(Ceil(w.timer + Sec(l.interval), TicksPerSecond))

\* Window.add
Window_add(l, w, hits, now) ==
  IF now >= w.timer + Sec(l.interval)
  THEN [hitCount |-> hits, timer |-> AlignedStart(l, now)]
  ELSE [w EXCEPT !.hitCount = @ + hits]

\* a bug: one hit too many fits in the window
Window_getAvailableTokens_offByOne(l, w, now) ==
  IF now >= w.timer + Sec(l.interval)
  THEN l.limit
  ELSE Max(0, l.limit + 1 - w.hitCount)

\* Window.getAvailableTokens
Window_getAvailableTokens(l, w, now) ==
  IF now >= w.timer + Sec(l.interval)
  THEN l.limit
  ELSE Max(0, l.limit - w.hitCount)

\* a bug: the wait is a whole interval from now, not the rest of the window
Window_calculateTimeForTokens_wholeInterval(l, w, tokens, now) ==
  IF Window_getAvailableTokens(l, w, now) >= tokens
  THEN 0
  ELSE Sec(l.interval)

\* Window.calculateTimeForTokens (in ticks)
Window_calculateTimeForTokens(l, w, tokens, now) ==
  IF Window_getAvailableTokens(l, w, now) >= tokens
  THEN 0
  ELSE w.timer + Sec(l.interval) - now

\* ---------------------------------------------------------------- SlidingWindow
\* new SlidingWindow(id, interval): 0 hits, windowEndAt = TimeUtil.now() + interval
NewSlidingWindow(l, now) ==
  [hitCount |-> 0, hitCountForLastWindow |-> 0, windowEndAt |-> now + Sec(l.interval)]

\* SlidingWindow.createFromPreviousWindow
SlidingWindow_createFromPreviousWindow(l, previousWindow, now) ==
  [hitCount |-> 0, hitCountForLastWindow |-> previousWindow.hitCount,
   windowEndAt |-> now + Sec(l.interval)]

\* a bug: a window is still carried over at the instant it expires
SlidingWindow_isExpired_late(l, w, now) == now > w.windowEndAt + Sec(l.interval)

\* SlidingWindow.isExpired
SlidingWindow_isExpired(l, w, now) == now >= w.windowEndAt + Sec(l.interval)

\* SlidingWindow.getExpirationTime (in ticks)
SlidingWindow_getExpirationTime(l, w) ==
  Sec(Ceil(w.windowEndAt + Sec(l.interval), TicksPerSecond))

\* SlidingWindow.add
SlidingWindow_add(w, hits) == [w EXCEPT !.hitCount = @ + hits]

\* a bug: the weighted count is rounded up
SlidingWindow_getHitCount_roundedUp(l, w, now) ==
  IF now >= w.windowEndAt
  THEN w.hitCount
  ELSE LET windowStartAt == w.windowEndAt - Sec(l.interval)
           timeIntoWindow == now - windowStartAt
       IN Ceil(w.hitCountForLastWindow * (Sec(l.interval) - timeIntoWindow)
                 + w.hitCount * Sec(l.interval),
               Sec(l.interval))

\* SlidingWindow.getHitCount:
\* floor(hitCountForLastWindow * (1 - timeIntoWindow / interval) + hitCount)
SlidingWindow_getHitCount(l, w, now) ==
  IF now >= w.windowEndAt
  THEN w.hitCount
  ELSE LET windowStartAt == w.windowEndAt - Sec(l.interval)
           timeIntoWindow == now - windowStartAt
       IN Floor(w.hitCountForLastWindow * (Sec(l.interval) - timeIntoWindow)
                  + w.hitCount * Sec(l.interval),
                Sec(l.interval))

\* a bug: the wait is measured to the start of the window
SlidingWindow_calculateTimeForTokens_fromStart(l, w, tokens, now) ==
  IF Max(0, l.limit - SlidingWindow_getHitCount(l, w, now)) >= tokens
  THEN 0
  ELSE w.windowEndAt - Sec(l.interval) - now

\* SlidingWindow.calculateTimeForTokens (in ticks)
SlidingWindow_calculateTimeForTokens(l, w, tokens, now) ==
  IF Max(0, l.limit - SlidingWindow_getHitCount(l, w, now)) >= tokens
  THEN 0
  ELSE w.windowEndAt - now

\* ---------------------------------------------------------------- InMemoryStorage
\* The storage is the Map of InMemoryStorage: id -> <<>> or <<[expiresAt, state]>>.
\* fetch hands out the stored object itself, so a caller's later setters
\* change the stored entry (WriteThrough) even when save is never called.

\* a bug: an entry is still handed out at the instant it expires
InMemoryStorage_fetch_late(sto, id, now) ==
  IF sto[id] = <<>>
  THEN [storage |-> sto, state |-> <<>>]
  ELSE IF sto[id][1].expiresAt # <<>> /\ now > sto[id][1].expiresAt[1]
       THEN [storage |-> [sto EXCEPT ![id] = <<>>], state |-> <<>>]
       ELSE [storage |-> sto, state |-> <<sto[id][1].state>>]

\* InMemoryStorage.fetch: [storage, state]; an expired entry is deleted
InMemoryStorage_fetch(sto, id, now) ==
  IF sto[id] = <<>>
  THEN [storage |-> sto, state |-> <<>>]
  ELSE IF sto[id][1].expiresAt # <<>> /\ now >= sto[id][1].expiresAt[1]
       THEN [storage |-> [sto EXCEPT ![id] = <<>>], state |-> <<>>]
       ELSE [storage |-> sto, state |-> <<sto[id][1].state>>]

\* InMemoryStorage.save: expiresAt = expirationTime ? expirationTime * 1000 : null
InMemoryStorage_save(sto, id, state, expirationTime) ==
  [sto EXCEPT ![id] =
     <<[expiresAt |-> IF expirationTime = 0 THEN <<>> ELSE <<expirationTime>>,
        state |-> state]>>]

\* a bug: delete empties the whole storage
InMemoryStorage_delete_all(sto, id) == [i \in DOMAIN sto |-> <<>>]

\* InMemoryStorage.delete
InMemoryStorage_delete(sto, id) == [sto EXCEPT ![id] = <<>>]

\* a bug: fetch hands out a copy, so the setters do not reach the stored object
WriteThrough_copy(sto, id, fetched, state) == sto

\* the setters of a state object that fetch returned act on the stored object
WriteThrough(sto, id, fetched, state) ==
  IF fetched /\ sto[id] # <<>>
  THEN [sto EXCEPT ![id] = <<[expiresAt |-> sto[id][1].expiresAt, state |-> state]>>]
  ELSE sto

\* ---------------------------------------------------------------- outcomes
\* what a call produced: the storage afterwards, the kind of result
\* ("RateLimit", "Reservation", "MaxWaitDurationExceededException", "Error", "void"),
\* the RateLimit returned or carried, the reservation's timeToAct, the wait
\* and the available tokens the call computed, and whether it called save
Outcome(sto, kind, rateLimit, timeToAct, waitTime, availableTokens, saved) ==
  [storage |-> sto, kind |-> kind, rateLimit |-> rateLimit, timeToAct |-> timeToAct,
   waitTime |-> waitTime, availableTokens |-> availableTokens, saved |-> saved]

\* a bug: a wait equal to maxTime is refused too
MaxTimeExceeded_orEqual(maxTime, waitTime) == maxTime # <<>> /\ waitTime >= maxTime[1]

\* the max wait check of reserve: maxTime !== null && waitTime > maxTime
MaxTimeExceeded(maxTime, waitTime) == maxTime # <<>> /\ waitTime > maxTime[1]

\* ---------------------------------------------------------------- TokenBucketLimiter
\* TokenBucketLimiter.consume
TokenBucketLimiter_consume(l, sto, now, tokens) ==
  LET f == InMemoryStorage_fetch(sto, l.id, now)
      fetched == f.state # <<>>
      bucket == IF fetched THEN f.state[1] ELSE NewTokenBucket(l, now)
      availableTokens == TokenBucket_getAvailableTokens(l, bucket, now)
      updated == [tokens |-> availableTokens, timer |-> now]
  IN IF availableTokens >= tokens
     THEN LET spent == [updated EXCEPT !.tokens = availableTokens - tokens]
          IN Outcome(InMemoryStorage_save(f.storage, l.id, spent,
                                          TokenBucket_getExpirationTime(l, spent)),
                     "RateLimit",
                     <<RateLimit(availableTokens - tokens, now, TRUE, l.limit)>>,
                     <<>>, 0, availableTokens, TRUE)
     ELSE LET waitTime == Sec(Rate_calculateTimeForTokens(l, tokens - availableTokens))
          IN Outcome(WriteThrough(f.storage, l.id, fetched, updated),
                     "RateLimit",
                     <<RateLimit(availableTokens, now + waitTime, FALSE, l.limit)>>,
                     <<>>, waitTime, availableTokens, FALSE)

\* TokenBucketLimiter.reserve
TokenBucketLimiter_reserve(l, sto, now, tokens, maxTime) ==
  LET f == InMemoryStorage_fetch(sto, l.id, now)
      fetched == f.state # <<>>
      bucket == IF fetched THEN f.state[1] ELSE NewTokenBucket(l, now)
      availableTokens == TokenBucket_getAvailableTokens(l, bucket, now)
      updated == [tokens |-> availableTokens, timer |-> now]
  IN IF tokens > l.limit
     THEN Outcome(WriteThrough(f.storage, l.id, fetched, updated),
                  "Error", <<>>, <<>>, 0, availableTokens, FALSE)
     ELSE LET enough == availableTokens >= tokens
              waitTime == IF enough THEN 0
                          ELSE Sec(Rate_calculateTimeForTokens(l, tokens - availableTokens))
              timeToAct == now + waitTime
              reserved == IF enough
                          THEN [updated EXCEPT !.tokens = availableTokens - tokens]
                          ELSE [tokens |-> 0, timer |-> timeToAct]
          IN IF MaxTimeExceeded(maxTime, waitTime)
             THEN Outcome(WriteThrough(f.storage, l.id, fetched, reserved),
                          "MaxWaitDurationExceededException",
                          <<RateLimit(availableTokens, now + waitTime, FALSE, l.limit)>>,
                          <<>>, waitTime, availableTokens, FALSE)
             ELSE Outcome(InMemoryStorage_save(f.storage, l.id, reserved,
                                               TokenBucket_getExpirationTime(l, reserved)),
                          "Reservation",
                          <<RateLimit(Max(0, availableTokens - tokens), timeToAct,
                                      TRUE, l.limit)>>,
                          <<timeToAct>>, waitTime, availableTokens, TRUE)

\* ---------------------------------------------------------------- FixedWindowLimiter
\* a bug: a rejected consume is counted in the stored window too
FixedWindowLimiter_consume_counting(l, sto, now, tokens) ==
  LET f == InMemoryStorage_fetch(sto, l.id, now)
      fetched == f.state # <<>>
      window == IF fetched THEN f.state[1] ELSE NewWindow(l, now)
      availableTokens == Window_getAvailableTokens(l, window, now)
  IN IF availableTokens >= tokens
     THEN LET added == Window_add(l, window, tokens, now)
          IN Outcome(InMemoryStorage_save(f.storage, l.id, added,
                                          Window_getExpirationTime(l, added)),
                     "RateLimit",
                     <<RateLimit(availableTokens - tokens, now, TRUE, l.limit)>>,
                     <<>>, 0, availableTokens, TRUE)
     ELSE LET waitTime == Window_calculateTimeForTokens(l, window, tokens, now)
          IN Outcome(WriteThrough(f.storage, l.id, fetched,
                                  Window_add(l, window, tokens, now)),
                     "RateLimit",
                     <<RateLimit(availableTokens, now + waitTime, FALSE, l.limit)>>,
                     <<>>, waitTime, availableTokens, FALSE)

\* FixedWindowLimiter.consume
FixedWindowLimiter_consume(l, sto, now, tokens) ==
  LET f == InMemoryStorage_fetch(sto, l.id, now)
      fetched == f.state # <<>>
      window == IF fetched THEN f.state[1] ELSE NewWindow(l, now)
      availableTokens == Window_getAvailableTokens(l, window, now)
  IN IF availableTokens >= tokens
     THEN LET added == Window_add(l, window, tokens, now)
          IN Outcome(InMemoryStorage_save(f.storage, l.id, added,
                                          Window_getExpirationTime(l, added)),
                     "RateLimit",
                     <<RateLimit(availableTokens - tokens, now, TRUE, l.limit)>>,
                     <<>>, 0, availableTokens, TRUE)
     ELSE LET waitTime == Window_calculateTimeForTokens(l, window, tokens, now)
          IN Outcome(f.storage, "RateLimit",
                     <<RateLimit(availableTokens, now + waitTime, FALSE, l.limit)>>,
                     <<>>, waitTime, availableTokens, FALSE)

\* FixedWindowLimiter.reserve
FixedWindowLimiter_reserve(l, sto, now, tokens, maxTime) ==
  LET f == InMemoryStorage_fetch(sto, l.id, now)
      fetched == f.state # <<>>
      window == IF fetched THEN f.state[1] ELSE NewWindow(l, now)
      availableTokens == Window_getAvailableTokens(l, window, now)
  IN IF tokens > l.limit
     THEN Outcome(f.storage, "Error", <<>>, <<>>, 0, availableTokens, FALSE)
     ELSE LET enough == availableTokens >= tokens
              windowEnd == window.timer + Sec(l.interval)
              waitTime == IF enough THEN 0 ELSE windowEnd - now
              timeToAct == IF enough THEN now ELSE windowEnd
              reserved == IF enough THEN Window_add(l, window, tokens, now) ELSE window
          IN IF MaxTimeExceeded(maxTime, waitTime)
             THEN Outcome(WriteThrough(f.storage, l.id, fetched, reserved),
                          "MaxWaitDurationExceededError",
                          <<RateLimit(availableTokens, now + waitTime, FALSE, l.limit)>>,
                          <<>>, waitTime, availableTokens, FALSE)
             ELSE Outcome(InMemoryStorage_save(f.storage, l.id, reserved,
                                               Window_getExpirationTime(l, reserved)),
                          "Reservation",
                          <<RateLimit(Max(0, availableTokens - tokens), timeToAct,
                                      TRUE, l.limit)>>,
                          <<timeToAct>>, waitTime, availableTokens, TRUE)

\* ---------------------------------------------------------------- SlidingWindowLimiter
\* SlidingWindowLimiter.maybeTransitionWindow
SlidingWindowLimiter_maybeTransitionWindow(l, window, now) ==
  IF now < window.windowEndAt
  THEN window
  ELSE IF SlidingWindow_isExpired(l, window, now)
       THEN NewSlidingWindow(l, now)
       ELSE SlidingWindow_createFromPreviousWindow(l, window, now)

\* SlidingWindowLimiter.consume
SlidingWindowLimiter_consume(l, sto, now, tokens) ==
  LET f == InMemoryStorage_fetch(sto, l.id, now)
      window == IF f.state # <<>> THEN f.state[1] ELSE NewSlidingWindow(l, now)
      updatedWindow == SlidingWindowLimiter_maybeTransitionWindow(l, window, now)
      \* the setters act on the stored object only when no new object was made
      fetched == f.state # <<>> /\ now < window.windowEndAt
      currentHitCount == SlidingWindow_getHitCount(l, updatedWindow, now)
      availableTokens == Max(0, l.limit - currentHitCount)
  IN IF availableTokens >= tokens
     THEN LET added == SlidingWindow_add(updatedWindow, tokens)
          IN Outcome(InMemoryStorage_save(f.storage, l.id, added,
                                          SlidingWindow_getExpirationTime(l, added)),
                     "RateLimit",
                     <<RateLimit(availableTokens - tokens, now, TRUE, l.limit)>>,
                     <<>>, 0, availableTokens, TRUE)
     ELSE LET waitTime ==
                SlidingWindow_calculateTimeForTokens(l, updatedWindow, tokens, now)
          IN Outcome(f.storage, "RateLimit",
                     <<RateLimit(availableTokens, now + waitTime, FALSE, l.limit)>>,
                     <<>>, waitTime, availableTokens, FALSE)

\* SlidingWindowLimiter.reserve
SlidingWindowLimiter_reserve(l, sto, now, tokens, maxTime) ==
  LET f == InMemoryStorage_fetch(sto, l.id, now)
      window == IF f.state # <<>> THEN f.state[1] ELSE NewSlidingWindow(l, now)
      updatedWindow == SlidingWindowLimiter_maybeTransitionWindow(l, window, now)
      fetched == f.state # <<>> /\ now < window.windowEndAt
      currentHitCount == SlidingWindow_getHitCount(l, updatedWindow, now)
      availableTokens == Max(0, l.limit - currentHitCount)
  IN IF tokens > l.limit
     THEN Outcome(f.storage, "Error", <<>>, <<>>, 0, availableTokens, FALSE)
     ELSE LET enough == availableTokens >= tokens
              waitTime == IF enough THEN 0
                          ELSE SlidingWindow_calculateTimeForTokens(l, updatedWindow,
                                                                    tokens, now)
              timeToAct == now + waitTime
              reserved == IF enough THEN SlidingWindow_add(updatedWindow, tokens)
                          ELSE updatedWindow
          IN IF MaxTimeExceeded(maxTime, waitTime)
             THEN Outcome(WriteThrough(f.storage, l.id, fetched, reserved),
                          "MaxWaitDurationExceededException",
                          <<RateLimit(availableTokens, now + waitTime, FALSE, l.limit)>>,
                          <<>>, waitTime, availableTokens, FALSE)
             ELSE Outcome(InMemoryStorage_save(f.storage, l.id, reserved,
                                               SlidingWindow_getExpirationTime(l, reserved)),
                          "Reservation",
                          <<RateLimit(Max(0, availableTokens - tokens), timeToAct,
                                      TRUE, l.limit)>>,
                          <<timeToAct>>, waitTime, availableTokens, TRUE)

\* ---------------------------------------------------------------- NoLimiter
\* Number.MAX_SAFE_INTEGER is 2^53 - 1; the largest integer of the model checker
\* stands for it. It is only compared, never added to.
MaxSafeInteger == 2147483647

\* a bug: nothing is reported as remaining
NoLimiter_consume_empty(l, sto, now, tokens) ==
  Outcome(sto, "RateLimit", <<RateLimit(0, now, TRUE, MaxSafeInteger)>>,
          <<>>, 0, 0, FALSE)

\* NoLimiter.consume: always accepted, nothing read or stored
NoLimiter_consume(l, sto, now, tokens) ==
  Outcome(sto, "RateLimit",
          <<RateLimit(MaxSafeInteger, now, TRUE, MaxSafeInteger)>>,
          <<>>, 0, MaxSafeInteger, FALSE)

\* NoLimiter.reserve: a reservation for now, whatever tokens and maxTime are
NoLimiter_reserve(l, sto, now, tokens, maxTime) ==
  Outcome(sto, "Reservation",
          <<RateLimit(MaxSafeInteger, now, TRUE, MaxSafeInteger)>>,
          <<now>>, 0, MaxSafeInteger, FALSE)

\* NoLimiter.reset: no-op
NoLimiter_reset(l, sto) == Outcome(sto, "void", <<>>, <<>>, 0, 0, FALSE)

\* ---------------------------------------------------------------- LimiterInterface
\* LimiterInterface.consume, dispatched on the engine
Limiter_consume(l, sto, now, tokens) ==
  CASE l.policy = "token_bucket" -> TokenBucketLimiter_consume(l, sto, now, tokens)
    [] l.policy = "fixed_window" -> FixedWindowLimiter_consume(l, sto, now, tokens)
    [] l.policy = "sliding_window" -> SlidingWindowLimiter_consume(l, sto, now, tokens)
    [] l.policy = "no_limit" -> NoLimiter_consume(l, sto, now, tokens)

\* a bug: a request above the limit is cut down to the limit instead of refused
Limiter_reserve_clamped(l, sto, now, tokens, maxTime) ==
  CASE l.policy = "token_bucket" ->
         TokenBucketLimiter_reserve(l, sto, now, Min(tokens, l.limit), maxTime)
    [] l.policy = "fixed_window" ->
         FixedWindowLimiter_reserve(l, sto, now, Min(tokens, l.limit), maxTime)
    [] l.policy = "sliding_window" ->
         SlidingWindowLimiter_reserve(l, sto, now, Min(tokens, l.limit), maxTime)

\* LimiterInterface.reserve, dispatched on the engine
Limiter_reserve(l, sto, now, tokens, maxTime) ==
  CASE l.policy = "token_bucket" -> TokenBucketLimiter_reserve(l, sto, now, tokens, maxTime)
    [] l.policy = "fixed_window" -> FixedWindowLimiter_reserve(l, sto, now, tokens, maxTime)
    [] l.policy = "sliding_window" ->
         SlidingWindowLimiter_reserve(l, sto, now, tokens, maxTime)
    [] l.policy = "no_limit" -> NoLimiter_reserve(l, sto, now, tokens, maxTime)

\* a bug: reset leaves the stored state in place
Limiter_reset_kept(l, sto) == Outcome(sto, "void", <<>>, <<>>, 0, 0, FALSE)

\* LimiterInterface.reset: storage.delete(this.id) in the three engines that
\* store a state
Limiter_reset(l, sto) ==
  IF l.policy = "no_limit"
  THEN NoLimiter_reset(l, sto)
  ELSE Outcome(InMemoryStorage_delete(sto, l.id), "void", <<>>, <<>>, 0, 0, FALSE)

\* ---------------------------------------------------------------- state
VARIABLES
  limiters,    \* the engines in use: <<[policy, id, limit, interval, amount], ...>>
  storage,     \* the InMemoryStorage map: id -> <<>> or <<[expiresAt, state]>>
  now,         \* the clock (Date.now()), in ticks
  last,        \* the last call made at the time `now` and what it produced
  granted,     \* history: tokens granted with effective time <= now
  pending,     \* history: tokens of reservations, by timeToAct > now
  windowHits,  \* history: tokens of the consume calls accepted in the aligned window of now
  firstUse,    \* history: <<time of the first call on the key>>, <<>> before it
  calls,       \* concurrent calls: per caller, how far its call has run and with what
  heap,        \* the state objects the concurrent calls hold: reference -> <<>> or <<state>>
  lockHolder   \* the caller inside lock.withLock, 0 when none is

vars ==
  <<limiters, storage, now, last, granted, pending, windowHits, firstUse,
    calls, heap, lockHolder>>

\* the part of the state that only concurrent calls use
concurrency == <<calls, heap, lockHolder>>

history == <<granted, pending, windowHits, firstUse>>

Policies == {"token_bucket", "fixed_window", "sliding_window"}

\* RateLimiterFactory.validateConfig / createXLimiter / Rate constructor:
\* limit >= 1, interval >= 1 second, amount >= 1 (token_bucket only)
LimiterConfigs(id) ==
  {c \in [policy : Policies, id : {id}, limit : 1..MaxLimit,
          interval : 1..MaxInterval, amount : 1..MaxAmount] :
     c.policy # "token_bucket" => c.amount = 1}

\* maxTime arguments of reserve: null, no wait at all, or a duration in ticks
MaxTimes == {<<>>, <<0>>, <<MaxWaitTicks>>}

\* maxTime arguments of reserve where the wait is not compared: null, or no wait at all
NoWaitMaxTimes == {<<>>, <<0>>}

NoCall ==
  [op |-> "none", tokens |-> 0, maxTime |-> <<>>, now |-> 0, kind |-> "none",
   rateLimit |-> <<>>, timeToAct |-> <<>>, waitTime |-> 0, availableTokens |-> 0,
   saved |-> FALSE]

\* the record of a call: its arguments and its outcome
Call(op, tokens, maxTime, o) ==
  [op |-> op, tokens |-> tokens, maxTime |-> maxTime, now |-> now, kind |-> o.kind,
   rateLimit |-> o.rateLimit, timeToAct |-> o.timeToAct, waitTime |-> o.waitTime,
   availableTokens |-> o.availableTokens, saved |-> o.saved]

\* calls are made one after the other, each awaited before the next
NoConcurrency ==
  /\ calls = <<>>
  /\ heap = <<>>
  /\ lockHolder = 0

NoHistory ==
  /\ granted = 0
  /\ pending = [t \in 0..Horizon |-> 0]
  /\ windowHits = 0
  /\ firstUse = <<>>

\* one engine on one key, nothing stored yet
Init ==
  /\ \E l \in LimiterConfigs(1) : limiters = <<l>>
  /\ storage = [id \in {1} |-> <<>>]
  /\ now = 0
  /\ last = NoCall
  /\ NoHistory
  /\ NoConcurrency

\* time passes
Tick ==
  /\ now < MaxTime
  /\ now' = now + 1
  /\ last' = NoCall
  /\ UNCHANGED <<limiters, storage, history>>
  /\ UNCHANGED concurrency

\* await limiter.consume(tokens)
Consume(tokens) ==
  LET o == Limiter_consume(limiters[1], storage, now, tokens)
  IN /\ storage' = o.storage
     /\ last' = Call("consume", tokens, <<>>, o)
     /\ UNCHANGED <<limiters, now, history>>
     /\ UNCHANGED concurrency

\* await limiter.reserve(tokens, maxTime)
Reserve(tokens, maxTime) ==
  LET o == Limiter_reserve(limiters[1], storage, now, tokens, maxTime)
  IN /\ o.waitTime <= MaxAhead
     /\ storage' = o.storage
     /\ last' = Call("reserve", tokens, maxTime, o)
     /\ UNCHANGED <<limiters, now, history>>
     /\ UNCHANGED concurrency

\* await limiter.reset()
Reset ==
  LET o == Limiter_reset(limiters[1], storage)
  IN /\ storage' = o.storage
     /\ last' = Call("reset", 0, <<>>, o)
     /\ UNCHANGED <<limiters, now, history>>
     /\ UNCHANGED concurrency

Next ==
  \/ Tick
  \/ \E tokens \in 1..MaxTokens : Consume(tokens)
  \/ \E tokens \in 1..MaxTokens, maxTime \in MaxTimes : Reserve(tokens, maxTime)
  \/ Reset

Spec == Init /\ [][Next]_vars

\* ---------------------------------------------------------------- history of a token bucket
\* A TokenBucketLimiter under consume and reserve calls (no reset), with the
\* history of what it granted: `granted` and `pending` count the tokens of
\* accepted consume calls (at their call time) and of reservations (at their
\* timeToAct).

BInit ==
  /\ \E l \in LimiterConfigs(1) : l.policy = "token_bucket" /\ limiters = <<l>>
  /\ storage = [id \in {1} |-> <<>>]
  /\ now = 0
  /\ last = NoCall
  /\ NoHistory
  /\ NoConcurrency

\* The first call on the key comes within the first second of the clock: the
\* bucket's arithmetic depends on the clock only through differences of times
\* and through rounding to whole seconds, so a later first call gives the same
\* runs shifted by whole seconds.
FirstCallEarly == firstUse # <<>> \/ now < TicksPerSecond

\* time passes: reservations whose timeToAct is reached count as granted
BTick ==
  /\ now < MaxTime
  /\ now' = now + 1
  /\ granted' = granted + pending[now + 1]
  /\ pending' = [pending EXCEPT ![now + 1] = 0]
  /\ UNCHANGED <<limiters, storage, last, windowHits, firstUse>>
  /\ UNCHANGED concurrency

\* await limiter.consume(tokens)
BConsume(tokens) ==
  LET o == Limiter_consume(limiters[1], storage, now, tokens)
  IN /\ FirstCallEarly
     /\ storage' = o.storage
     /\ granted' = IF o.rateLimit[1].accepted THEN granted + tokens ELSE granted
     /\ firstUse' = IF firstUse = <<>> THEN <<now>> ELSE firstUse
     /\ UNCHANGED <<limiters, now, last, pending, windowHits>>
     /\ UNCHANGED concurrency

\* await limiter.reserve(tokens, maxTime)
BReserve(tokens, maxTime) ==
  LET o == Limiter_reserve(limiters[1], storage, now, tokens, maxTime)
      isGranted == o.kind = "Reservation"
  IN /\ FirstCallEarly
     /\ o.waitTime <= MaxAhead
     /\ storage' = o.storage
     /\ granted' = IF isGranted /\ o.timeToAct[1] <= now THEN granted + tokens
                   ELSE granted
     /\ pending' = IF isGranted /\ o.timeToAct[1] > now
                   THEN [pending EXCEPT ![o.timeToAct[1]] = @ + tokens]
                   ELSE pending
     /\ firstUse' = IF firstUse = <<>> THEN <<now>> ELSE firstUse
     /\ UNCHANGED <<limiters, now, last, windowHits>>
     /\ UNCHANGED concurrency

BNext ==
  \/ BTick
  \/ \E tokens \in 1..MaxTokens : BConsume(tokens)
  \/ \E tokens \in 1..MaxTokens, maxTime \in MaxTimes : BReserve(tokens, maxTime)

SpecBucket == BInit /\ [][BNext]_vars

\* ---------------------------------------------------------------- history of a fixed window
\* A FixedWindowLimiter under consume and reserve calls (no reset), with
\* `windowHits`: the tokens of the consume calls accepted in the aligned
\* window [k * interval, (k + 1) * interval) that contains `now`, and
\* `granted`: the tokens of all accepted consume calls.

WInit ==
  /\ \E l \in LimiterConfigs(1) : l.policy = "fixed_window" /\ limiters = <<l>>
  /\ storage = [id \in {1} |-> <<>>]
  /\ now = 0
  /\ last = NoCall
  /\ NoHistory
  /\ NoConcurrency

\* time passes: windowHits starts again at an aligned window boundary
WTick ==
  /\ now < MaxTime
  /\ now' = now + 1
  /\ windowHits' = IF (now + 1) % Sec(limiters[1].interval) = 0 THEN 0 ELSE windowHits
  /\ UNCHANGED <<limiters, storage, last, granted, pending, firstUse>>
  /\ UNCHANGED concurrency

\* await limiter.consume(tokens)
WConsume(tokens) ==
  LET o == Limiter_consume(limiters[1], storage, now, tokens)
      hit == IF o.rateLimit[1].accepted THEN tokens ELSE 0
  IN /\ storage' = o.storage
     /\ granted' = granted + hit
     /\ windowHits' = windowHits + hit
     /\ UNCHANGED <<limiters, now, last, pending, firstUse>>
     /\ UNCHANGED concurrency

\* await limiter.reserve(tokens, maxTime)
WReserve(tokens, maxTime) ==
  LET o == Limiter_reserve(limiters[1], storage, now, tokens, maxTime)
  IN /\ storage' = o.storage
     /\ UNCHANGED <<limiters, now, last, history>>
     /\ UNCHANGED concurrency

WNext ==
  \/ WTick
  \/ \E tokens \in 1..MaxTokens : WConsume(tokens)
  \/ \E tokens \in 1..MaxTokens, maxTime \in MaxTimes : WReserve(tokens, maxTime)

SpecWindow == WInit /\ [][WNext]_vars

\* tokens of the reservations with now < timeToAct <= T
RECURSIVE PendingUpTo(_)
PendingUpTo(T) == IF T <= now THEN 0 ELSE pending[T] + PendingUpTo(T - 1)

\* tokens granted with effective time <= T, for T >= now
GrantedUpTo(T) == granted + PendingUpTo(T)

\* ---------------------------------------------------------------- history of a sliding window
\* A SlidingWindowLimiter under consume calls alone, with `pending`: the tokens
\* of the consume calls accepted at each time. The limits go beyond MaxLimit so
\* that the hits of a previous window are weighed in fractions, and the clock
\* runs over two of the longest intervals so that a window, the next one and the
\* time in between are seen.

SlidingEnd == 2 * Sec(MaxInterval)

SlidingConfigs ==
  {[id |-> 1, policy |-> "sliding_window", limit |-> limit, interval |-> interval,
    amount |-> 1] :
     limit \in MaxLimit..(2 * MaxLimit), interval \in 1..MaxInterval}

SInit ==
  /\ \E l \in SlidingConfigs : limiters = <<l>>
  /\ storage = [id \in {1} |-> <<>>]
  /\ now = 0
  /\ last = NoCall
  /\ NoHistory
  /\ NoConcurrency

\* time passes
STick ==
  /\ now < SlidingEnd
  /\ now' = now + 1
  /\ last' = NoCall
  /\ UNCHANGED <<limiters, storage, history>>
  /\ UNCHANGED concurrency

\* await limiter.consume(tokens)
SConsume(tokens) ==
  LET o == Limiter_consume(limiters[1], storage, now, tokens)
  IN /\ storage' = o.storage
     /\ last' = Call("consume", tokens, <<>>, o)
     /\ pending' = IF o.rateLimit[1].accepted
                   THEN [pending EXCEPT ![now] = @ + tokens]
                   ELSE pending
     /\ UNCHANGED <<limiters, now, granted, windowHits, firstUse>>
     /\ UNCHANGED concurrency

SNext ==
  \/ STick
  \/ \E tokens \in 1..MaxTokens : SConsume(tokens)

SpecSliding == SInit /\ [][SNext]_vars

\* tokens of the consume calls accepted at the times from..to
RECURSIVE AcceptedIn(_, _)
AcceptedIn(from, to) ==
  IF from > to THEN 0 ELSE pending[from] + AcceptedIn(from + 1, to)

\* ---------------------------------------------------------------- CompoundLimiter
\* Promise.all(limiters.map(limiter => limiter.consume(tokens))): every engine's
\* consume, each on its own key; [storage, results] from engine i on
RECURSIVE CompoundLimiter_fanOut(_, _, _, _, _)
CompoundLimiter_fanOut(ls, sto, t, tokens, i) ==
  IF i > Len(ls)
  THEN [storage |-> sto, results |-> <<>>]
  ELSE LET o == Limiter_consume(ls[i], sto, t, tokens)
           rest == CompoundLimiter_fanOut(ls, o.storage, t, tokens, i + 1)
       IN [storage |-> rest.storage, results |-> <<o.rateLimit[1]>> \o rest.results]

\* the test of the reduction loop: result replaces mostRestrictive
CompoundLimiter_moreRestrictive(result, mostRestrictive) ==
  \/ ~result.accepted /\ mostRestrictive.accepted
  \/ /\ ~result.accepted
     /\ ~mostRestrictive.accepted
     /\ result.retryAfter > mostRestrictive.retryAfter
  \/ /\ result.accepted
     /\ mostRestrictive.accepted
     /\ result.availableTokens < mostRestrictive.availableTokens

\* the reduction loop over results.slice(1), from result i on
RECURSIVE CompoundLimiter_reduce(_, _, _)
CompoundLimiter_reduce(results, i, mostRestrictive) ==
  IF i > Len(results)
  THEN mostRestrictive
  ELSE CompoundLimiter_reduce(
         results, i + 1,
         IF CompoundLimiter_moreRestrictive(results[i], mostRestrictive)
         THEN results[i]
         ELSE mostRestrictive)

\* a bug: the first engine's result is returned
CompoundLimiter_mostRestrictive_first(results) == results[1]

\* the most restrictive of the results: mostRestrictive = results[0], then the loop
CompoundLimiter_mostRestrictive(results) ==
  CompoundLimiter_reduce(results, 2, results[1])

\* a bug: the engines' deductions are undone when the combined result is a rejection
CompoundLimiter_consume_rollback(ls, sto, t, tokens) ==
  LET f == CompoundLimiter_fanOut(ls, sto, t, tokens, 1)
      r == CompoundLimiter_mostRestrictive(f.results)
  IN [storage |-> IF r.accepted THEN f.storage ELSE sto,
      results |-> f.results, rateLimit |-> r]

\* CompoundLimiter.consume: [storage, results, rateLimit]
CompoundLimiter_consume(ls, sto, t, tokens) ==
  LET f == CompoundLimiter_fanOut(ls, sto, t, tokens, 1)
  IN [storage |-> f.storage, results |-> f.results,
      rateLimit |-> CompoundLimiter_mostRestrictive(f.results)]

\* a bug: reserve is handed to the first engine
CompoundLimiter_reserve_delegated(ls, sto, t, tokens, maxTime) ==
  Limiter_reserve(ls[1], sto, t, tokens, maxTime)

\* CompoundLimiter.reserve: always throws ReserveNotSupportedError
CompoundLimiter_reserve(ls, sto, t, tokens, maxTime) ==
  Outcome(sto, "ReserveNotSupportedError", <<>>, <<>>, 0, 0, FALSE)

\* CompoundLimiter.reset: Promise.all(limiters.map(limiter => limiter.reset()))
RECURSIVE CompoundLimiter_reset(_, _, _)
CompoundLimiter_reset(ls, sto, i) ==
  IF i > Len(ls)
  THEN sto
  ELSE CompoundLimiter_reset(ls, Limiter_reset(ls[i], sto).storage, i + 1)

\* ---------------------------------------------------------------- a compound limiter
\* A CompoundLimiter over two engines, each with its own key, nothing stored yet

\* the record of a compound call: its arguments, the engines' results and its result
CompoundCall(op, tokens, maxTime, kind, results, rateLimit) ==
  [op |-> op, tokens |-> tokens, maxTime |-> maxTime, now |-> now, kind |-> kind,
   results |-> results, rateLimit |-> rateLimit]

\* engines that refill one token per interval
UnitConfigs(id) == {l \in LimiterConfigs(id) : l.amount = 1}

\* the engines of the compound: the first over the shortest interval, the second
\* over the longest
CompoundConfigs(id) ==
  {l \in UnitConfigs(id) : l.interval = IF id = 1 THEN 1 ELSE MaxInterval}

CInit ==
  /\ \E l1 \in CompoundConfigs(1), l2 \in CompoundConfigs(2) : limiters = <<l1, l2>>
  /\ storage = [id \in {1, 2} |-> <<>>]
  /\ now = 0
  /\ last = CompoundCall("none", 0, <<>>, "none", <<>>, <<>>)
  /\ NoHistory
  /\ NoConcurrency

\* time passes
CTick ==
  /\ now < MaxTime
  /\ now' = now + 1
  /\ last' = CompoundCall("none", 0, <<>>, "none", <<>>, <<>>)
  /\ UNCHANGED <<limiters, storage, history>>
  /\ UNCHANGED concurrency

\* await compound.consume(tokens)
CConsume(tokens) ==
  LET c == CompoundLimiter_consume(limiters, storage, now, tokens)
  IN /\ storage' = c.storage
     /\ last' = CompoundCall("consume", tokens, <<>>, "RateLimit", c.results,
                             <<c.rateLimit>>)
     /\ UNCHANGED <<limiters, now, history>>
     /\ UNCHANGED concurrency

\* await compound.reserve(tokens, maxTime)
CReserve(tokens, maxTime) ==
  LET o == CompoundLimiter_reserve(limiters, storage, now, tokens, maxTime)
  IN /\ storage' = o.storage
     /\ last' = CompoundCall("reserve", tokens, maxTime, o.kind, <<>>, o.rateLimit)
     /\ UNCHANGED <<limiters, now, history>>
     /\ UNCHANGED concurrency

\* await compound.reset()
CReset ==
  /\ storage' = CompoundLimiter_reset(limiters, storage, 1)
  /\ last' = CompoundCall("reset", 0, <<>>, "void", <<>>, <<>>)
  /\ UNCHANGED <<limiters, now, history>>
  /\ UNCHANGED concurrency

CNext ==
  \/ CTick
  \/ \E tokens \in 1..MaxTokens : CConsume(tokens)
  \/ \E tokens \in {1, MaxTokens}, maxTime \in NoWaitMaxTimes : CReserve(tokens, maxTime)
  \/ CReset

SpecCompound == CInit /\ [][CNext]_vars

\* ---------------------------------------------------------------- NoLimiter, alone and combined
\* A NoLimiter and one other engine. The NoLimiter is called on its own, and
\* the two are called together through a CompoundLimiter, made with the
\* NoLimiter first or second. `last` is the last call together with what it
\* was made on. The NoLimiter has no key and no state; the key 1 stands
\* for what it would store.

TheNoLimiter ==
  [policy |-> "no_limit", id |-> 1, limit |-> MaxSafeInteger, interval |-> 1,
   amount |-> 1]

TargetedCall(target, c) == [target |-> target, call |-> c]

\* new CompoundLimiter([...]) of the two, in either order
Combined(order) ==
  IF order = 1 THEN <<limiters[1], limiters[2]>> ELSE <<limiters[2], limiters[1]>>

NInit ==
  /\ \E l \in LimiterConfigs(2) : limiters = <<TheNoLimiter, l>>
  /\ storage = [id \in {1, 2} |-> <<>>]
  /\ now = 0
  /\ last = TargetedCall("none", NoCall)
  /\ NoHistory
  /\ NoConcurrency

\* time passes
NTick ==
  /\ now < MaxTime
  /\ now' = now + 1
  /\ last' = TargetedCall("none", NoCall)
  /\ UNCHANGED <<limiters, storage, history>>
  /\ UNCHANGED concurrency

\* await noLimiter.consume(tokens)
NConsume(tokens) ==
  LET o == Limiter_consume(limiters[1], storage, now, tokens)
  IN /\ storage' = o.storage
     /\ last' = TargetedCall("NoLimiter", Call("consume", tokens, <<>>, o))
     /\ UNCHANGED <<limiters, now, history>>
     /\ UNCHANGED concurrency

\* await noLimiter.reserve(tokens, maxTime)
NReserve(tokens, maxTime) ==
  LET o == Limiter_reserve(limiters[1], storage, now, tokens, maxTime)
  IN /\ storage' = o.storage
     /\ last' = TargetedCall("NoLimiter", Call("reserve", tokens, maxTime, o))
     /\ UNCHANGED <<limiters, now, history>>
     /\ UNCHANGED concurrency

\* await noLimiter.reset(); `granted` counts these calls
NReset ==
  LET o == Limiter_reset(limiters[1], storage)
  IN /\ granted < 1
     /\ storage' = o.storage
     /\ granted' = granted + 1
     /\ last' = TargetedCall("NoLimiter", Call("reset", 0, <<>>, o))
     /\ UNCHANGED <<limiters, now, pending, windowHits, firstUse>>
     /\ UNCHANGED concurrency

\* await new CompoundLimiter(Combined(order)).consume(tokens)
NCombinedConsume(order, tokens) ==
  LET c == CompoundLimiter_consume(Combined(order), storage, now, tokens)
  IN /\ storage' = c.storage
     /\ last' = TargetedCall("CompoundLimiter",
                             CompoundCall("consume", tokens, <<>>, "RateLimit",
                                          c.results, <<c.rateLimit>>))
     /\ UNCHANGED <<limiters, now, history>>
     /\ UNCHANGED concurrency

NNext ==
  \/ NTick
  \/ \E tokens \in 1..MaxTokens : NConsume(tokens)
  \/ \E tokens \in 1..MaxTokens, maxTime \in MaxTimes : NReserve(tokens, maxTime)
  \/ NReset
  \/ \E order \in {1, 2}, tokens \in 1..MaxTokens : NCombinedConsume(order, tokens)

SpecNoLimiter == NInit /\ [][NNext]_vars

\* ---------------------------------------------------------------- the rate alone
\* A Rate of `amount` tokens per `interval` seconds whose two calculations are
\* called directly. `last` is the last call: its argument and its result.

RateCall(op, arg, result) == [op |-> op, arg |-> arg, result |-> result]

\* new Rate(interval, amount), both at least 1
Rates ==
  {[id |-> 1, policy |-> "token_bucket", limit |-> 1, interval |-> interval,
    amount |-> amount] :
     interval \in 1..(2 * MaxInterval), amount \in 1..(2 * MaxAmount)}

RInit ==
  /\ \E l \in Rates : limiters = <<l>>
  /\ storage = [id \in {1} |-> <<>>]
  /\ now = 0
  /\ last = RateCall("none", 0, 0)
  /\ NoHistory
  /\ NoConcurrency

\* rate.calculateTimeForTokens(tokens)
RTimeForTokens(tokens) ==
  /\ last' = RateCall("calculateTimeForTokens", tokens,
                      Rate_calculateTimeForTokens(limiters[1], tokens))
  /\ UNCHANGED <<limiters, storage, now, history>>
  /\ UNCHANGED concurrency

\* rate.calculateNewTokensDuringInterval(duration), the duration in ticks
RNewTokens(duration) ==
  /\ last' = RateCall("calculateNewTokensDuringInterval", duration,
                      Rate_calculateNewTokensDuringInterval(limiters[1], duration))
  /\ UNCHANGED <<limiters, storage, now, history>>
  /\ UNCHANGED concurrency

RNext ==
  \/ \E tokens \in 1..(2 * MaxTokens) : RTimeForTokens(tokens)
  \/ \E duration \in 0..Horizon : RNewTokens(duration)

SpecRate == RInit /\ [][RNext]_vars

\* ---------------------------------------------------------------- the storage alone
\* An InMemoryStorage called directly with save, fetch and delete on two ids.
\* The states saved are fixed-window counters; the expiration time a state
\* reports is any whole second up to the end of the clock, 0 included.
\* `last` is the last call: its arguments, what was stored under the id when it
\* was made, and what fetch returned.

StorageCall(op, id, state, expirationTime, before, result) ==
  [op |-> op, id |-> id, state |-> state, expirationTime |-> expirationTime,
   before |-> before, result |-> result]

NoStorageCall == StorageCall("none", 0, <<>>, 0, <<>>, <<>>)

StatesToSave == {[hitCount |-> h, timer |-> 0] : h \in 0..MaxLimit}

ExpirationTimes == {Sec(s) : s \in 0..Ceil(MaxTime, TicksPerSecond)}

StInit ==
  /\ limiters = <<>>
  /\ storage = [id \in {1, 2} |-> <<>>]
  /\ now = 0
  /\ last = NoStorageCall
  /\ NoHistory
  /\ NoConcurrency

\* time passes
StTick ==
  /\ now < MaxTime
  /\ now' = now + 1
  /\ last' = NoStorageCall
  /\ UNCHANGED <<limiters, storage, history>>
  /\ UNCHANGED concurrency

\* await storage.save(state), for a state with getId() = id and
\* getExpirationTime() = expirationTime
StSave(id, state, expirationTime) ==
  /\ storage' = InMemoryStorage_save(storage, id, state, expirationTime)
  /\ last' = StorageCall("save", id, <<state>>, expirationTime, storage[id], <<>>)
  /\ UNCHANGED <<limiters, now, history>>
  /\ UNCHANGED concurrency

\* await storage.fetch(id)
StFetch(id) ==
  LET f == InMemoryStorage_fetch(storage, id, now)
  IN /\ storage' = f.storage
     /\ last' = StorageCall("fetch", id, <<>>, 0, storage[id], f.state)
     /\ UNCHANGED <<limiters, now, history>>
     /\ UNCHANGED concurrency

\* await storage.delete(id)
StDelete(id) ==
  /\ storage' = InMemoryStorage_delete(storage, id)
  /\ last' = StorageCall("delete", id, <<>>, 0, storage[id], <<>>)
  /\ UNCHANGED <<limiters, now, history>>
  /\ UNCHANGED concurrency

StNext ==
  \/ StTick
  \/ \E id \in {1, 2}, state \in StatesToSave, expirationTime \in ExpirationTimes :
       StSave(id, state, expirationTime)
  \/ \E id \in {1, 2} : StFetch(id)
  \/ \E id \in {1, 2} : StDelete(id)

SpecStorage == StInit /\ [][StNext]_vars

\* ---------------------------------------------------------------- two keys
\* Two engines with the ids 1 and 2 on one InMemoryStorage, called one after the
\* other in any order, until just after the first engine's interval has passed.
\* `last` is the last call together with the key it was made on.

KeyedCall(i, c) == [key |-> i, call |-> c]

KeysInit ==
  /\ \E l1 \in CompoundConfigs(1), l2 \in CompoundConfigs(2) :
       /\ l2.limit = MaxLimit
       /\ limiters = <<l1, l2>>
  /\ storage = [id \in {1, 2} |-> <<>>]
  /\ now = 0
  /\ last = KeyedCall(0, NoCall)
  /\ NoHistory
  /\ NoConcurrency

\* time passes
KeysTick ==
  /\ now <= Sec(1)
  /\ now' = now + 1
  /\ last' = KeyedCall(0, NoCall)
  /\ UNCHANGED <<limiters, storage, history>>
  /\ UNCHANGED concurrency

\* await the limiter of key i .consume(tokens)
KeysConsume(i, tokens) ==
  LET o == Limiter_consume(limiters[i], storage, now, tokens)
  IN /\ storage' = o.storage
     /\ last' = KeyedCall(i, Call("consume", tokens, <<>>, o))
     /\ UNCHANGED <<limiters, now, history>>
     /\ UNCHANGED concurrency

\* await the limiter of key i .reserve(tokens, maxTime)
KeysReserve(i, tokens, maxTime) ==
  LET o == Limiter_reserve(limiters[i], storage, now, tokens, maxTime)
  IN /\ o.waitTime <= MaxAhead
     /\ storage' = o.storage
     /\ last' = KeyedCall(i, Call("reserve", tokens, maxTime, o))
     /\ UNCHANGED <<limiters, now, history>>
     /\ UNCHANGED concurrency

\* await the limiter of key i .reset()
KeysReset(i) ==
  LET o == Limiter_reset(limiters[i], storage)
  IN /\ storage' = o.storage
     /\ last' = KeyedCall(i, Call("reset", 0, <<>>, o))
     /\ UNCHANGED <<limiters, now, history>>
     /\ UNCHANGED concurrency

KeysNext ==
  \/ KeysTick
  \/ \E i \in {1, 2}, tokens \in 1..MaxLimit : KeysConsume(i, tokens)
  \/ \E i \in {1, 2}, tokens \in 1..MaxLimit, maxTime \in NoWaitMaxTimes :
       KeysReserve(i, tokens, maxTime)
  \/ \E i \in {1, 2} : KeysReset(i)

SpecKeys == KeysInit /\ [][KeysNext]_vars

\* ---------------------------------------------------------------- polling a key
\* One engine on one key, polled with consume calls, with the history of the
\* poll: `firstUse` is <<t0>> when an accepted consume at t0 left no tokens and
\* only rejected consume calls were made since; `granted` counts those rejected
\* consume calls (up to MaxPolls); `pending[n]` is <<retryAfter>> of the latest
\* rejected consume(n) since the last accepted call, reservation or reset.
\* A reserve call, granted or failed, and a reset end the poll.

MaxPolls == 2

NoPoll == [n \in 1..MaxTokens |-> <<>>]

PInit ==
  /\ \E l \in LimiterConfigs(1) : limiters = <<l>>
  /\ storage = [id \in {1} |-> <<>>]
  /\ now = 0
  /\ last = NoCall
  /\ granted = 0
  /\ pending = NoPoll
  /\ windowHits = 0
  /\ firstUse = <<>>
  /\ NoConcurrency

\* time passes
PTick ==
  /\ now < MaxTime
  /\ now' = now + 1
  /\ last' = NoCall
  /\ UNCHANGED <<limiters, storage, history>>
  /\ UNCHANGED concurrency

\* await limiter.consume(tokens)
PConsume(tokens) ==
  LET o == Limiter_consume(limiters[1], storage, now, tokens)
      accepted == o.rateLimit[1].accepted
  IN /\ storage' = o.storage
     /\ last' = Call("consume", tokens, <<>>, o)
     /\ firstUse' = IF ~ accepted THEN firstUse
                    ELSE IF o.rateLimit[1].availableTokens = 0 THEN <<now>>
                    ELSE <<>>
     /\ granted' = IF accepted THEN 0 ELSE Min(granted + 1, MaxPolls)
     /\ pending' = IF accepted THEN NoPoll
                   ELSE [pending EXCEPT ![tokens] = <<o.rateLimit[1].retryAfter>>]
     /\ UNCHANGED <<limiters, now, windowHits>>
     /\ UNCHANGED concurrency

\* await limiter.reserve(tokens, maxTime)
PReserve(tokens, maxTime) ==
  LET o == Limiter_reserve(limiters[1], storage, now, tokens, maxTime)
  IN /\ o.waitTime <= MaxAhead
     /\ storage' = o.storage
     /\ last' = Call("reserve", tokens, maxTime, o)
     /\ firstUse' = <<>>
     /\ granted' = 0
     /\ pending' = NoPoll
     /\ UNCHANGED <<limiters, now, windowHits>>
     /\ UNCHANGED concurrency

\* await limiter.reset()
PReset ==
  LET o == Limiter_reset(limiters[1], storage)
  IN /\ storage' = o.storage
     /\ last' = Call("reset", 0, <<>>, o)
     /\ firstUse' = <<>>
     /\ granted' = 0
     /\ pending' = NoPoll
     /\ UNCHANGED <<limiters, now, windowHits>>
     /\ UNCHANGED concurrency

PNext ==
  \/ PTick
  \/ \E tokens \in 1..MaxTokens : PConsume(tokens)
  \/ \E tokens \in 1..MaxTokens, maxTime \in MaxTimes : PReserve(tokens, maxTime)
  \/ PReset

SpecPoll == PInit /\ [][PNext]_vars

\* ---------------------------------------------------------------- with and without expiration
\* The same engine run twice over the same calls: under key 1 against
\* InMemoryStorage as it is, under key 2 against a store that never expires
\* its entries (every entry is kept with expiresAt = null). `last` holds both
\* results of the last call: `stored` from key 1, `kept` from key 2.

\* the entry of id kept without an expiration: expiresAt = null
NeverExpires(sto, id) ==
  IF sto[id] = <<>>
  THEN sto
  ELSE [sto EXCEPT ![id] = <<[expiresAt |-> <<>>, state |-> sto[id][1].state]>>]

BothCalls(stored, kept) == [stored |-> stored, kept |-> kept]

EInit ==
  /\ \E l \in LimiterConfigs(1) : limiters = <<l, [l EXCEPT !.id = 2]>>
  /\ storage = [id \in {1, 2} |-> <<>>]
  /\ now = 0
  /\ last = BothCalls(NoCall, NoCall)
  /\ NoHistory
  /\ NoConcurrency

\* time passes
ETick ==
  /\ now < MaxTime
  /\ now' = now + 1
  /\ last' = BothCalls(NoCall, NoCall)
  /\ UNCHANGED <<limiters, storage, history>>
  /\ UNCHANGED concurrency

\* await limiter.consume(tokens), on both stores
EConsume(tokens) ==
  LET stored == Limiter_consume(limiters[1], storage, now, tokens)
      kept == Limiter_consume(limiters[2], stored.storage, now, tokens)
  IN /\ storage' = NeverExpires(kept.storage, 2)
     /\ last' = BothCalls(Call("consume", tokens, <<>>, stored),
                          Call("consume", tokens, <<>>, kept))
     /\ UNCHANGED <<limiters, now, history>>
     /\ UNCHANGED concurrency

\* await limiter.reserve(tokens, maxTime), on both stores
EReserve(tokens, maxTime) ==
  LET stored == Limiter_reserve(limiters[1], storage, now, tokens, maxTime)
      kept == Limiter_reserve(limiters[2], stored.storage, now, tokens, maxTime)
  IN /\ stored.waitTime <= MaxAhead
     /\ kept.waitTime <= MaxAhead
     /\ storage' = NeverExpires(kept.storage, 2)
     /\ last' = BothCalls(Call("reserve", tokens, maxTime, stored),
                          Call("reserve", tokens, maxTime, kept))
     /\ UNCHANGED <<limiters, now, history>>
     /\ UNCHANGED concurrency

ENext ==
  \/ ETick
  \/ \E tokens \in 1..MaxTokens : EConsume(tokens)
  \/ \E tokens \in 1..MaxTokens, maxTime \in MaxTimes : EReserve(tokens, maxTime)

SpecExpiry == EInit /\ [][ENext]_vars

\* ---------------------------------------------------------------- concurrent calls
\* Callers on one event loop share one engine and its key. A call runs without
\* interruption up to an await: from its start through storage.fetch (the map is
\* read when fetch is called), then, once resumed, from the test of the fetched
\* state through storage.save (the map is written when save is called). The
\* continuations that touch no shared state are run with the step before them.
NProc == 2

Procs == 1..NProc

\* the lock given to the engine: the default NoLock, or one that excludes per key
LockKinds == {"NoLock", "Mutex"}

IdleCall ==
  [pc |-> "idle", op |-> "none", tokens |-> 0, maxTime |-> <<>>, now |-> 0,
   ref |-> 0, seen |-> <<>>, kind |-> "none", rateLimit |-> <<>>]

\* the storage as values: every entry with the state of the object it refers to
StoredValue(sto, h) ==
  [id \in DOMAIN sto |->
     IF sto[id] = <<>>
     THEN <<>>
     ELSE <<[expiresAt |-> sto[id][1].expiresAt, state |-> h[sto[id][1].state][1]]>>]

\* getOrCreateBucket / getOrCreateWindow when fetch returned null: the new state object
Limiter_newState(l, t) ==
  CASE l.policy = "token_bucket" -> NewTokenBucket(l, t)
    [] l.policy = "fixed_window" -> NewWindow(l, t)
    [] l.policy = "sliding_window" -> NewSlidingWindow(l, t)

\* a bug: the lock is let go once the state is fetched
Limiter_insideWithLock_fetchOnly(pc) == FALSE

\* the positions of a call that lie inside the callback given to lock.withLock
Limiter_insideWithLock(pc) == pc = "loaded"

\* NoLock.withLock runs the callback at once; a mutual-exclusion lock runs it when
\* no other caller is inside withLock for the key
Lock_mayEnter(l, holder) == l.lock = "NoLock" \/ holder = 0

\* the caller inside withLock after caller p has moved to position pc
Lock_holder(l, holder, p, pc) ==
  IF l.lock = "NoLock"
  THEN 0
  ELSE IF Limiter_insideWithLock(pc) THEN p ELSE IF holder = p THEN 0 ELSE holder

\* the rest of the callback, run on the state object w at the time t the call read:
\* the engine's operation on a storage that holds w
Limiter_onObject(l, w, t, op, tokens, maxTime) ==
  LET held == [id \in {l.id} |-> <<[expiresAt |-> <<>>, state |-> w]>>]
  IN IF op = "consume"
     THEN Limiter_consume(l, held, t, tokens)
     ELSE Limiter_reserve(l, held, t, tokens, maxTime)

\* maybeTransitionWindow makes a new object when the window has ended
Limiter_makesObject(l, w, t) == l.policy = "sliding_window" /\ t >= w.windowEndAt

\* callers are numbered in the order of their calls
InTurn(p) == IF p = 1 THEN TRUE ELSE calls[p - 1].pc # "idle"

\* one engine with its lock; its key holds nothing, or what consume(hits) at time 0 left
KInit ==
  /\ \E c \in UnitConfigs(1), k \in LockKinds :
       limiters = <<[policy |-> c.policy, id |-> c.id, limit |-> c.limit,
                     interval |-> c.interval, amount |-> c.amount, lock |-> k]>>
  /\ \E hits \in 0..limiters[1].limit :
       LET empty == [id \in {1} |-> <<>>]
           sto == Limiter_consume(limiters[1], empty, 0, hits).storage
       IN IF hits = 0
          THEN /\ storage = empty
               /\ heap = [r \in 0..NProc |-> <<>>]
          ELSE /\ storage = [id \in {1} |->
                               <<[expiresAt |-> sto[id][1].expiresAt, state |-> 0]>>]
               /\ heap = [r \in 0..NProc |-> IF r = 0 THEN <<sto[1][1].state>> ELSE <<>>]
  /\ now = 0
  /\ last = NoCall
  /\ NoHistory
  /\ calls = [p \in Procs |-> IdleCall]
  /\ lockHolder = 0

\* time passes
KTick ==
  /\ now < Sec(MaxInterval)
  /\ now' = now + 1
  /\ UNCHANGED <<limiters, storage, last, history, concurrency>>

\* caller p calls consume or reserve: withLock, TimeUtil.now(), storage.fetch
KStart(p, op, tokens, maxTime) ==
  LET l == limiters[1]
      f == InMemoryStorage_fetch(storage, l.id, now)
  IN /\ calls[p].pc = "idle"
     /\ InTurn(p)
     /\ Lock_mayEnter(l, lockHolder)
     /\ storage' = f.storage
     /\ heap' = IF f.state = <<>>
                THEN [heap EXCEPT ![p] = <<Limiter_newState(l, now)>>]
                ELSE heap
     /\ calls' = [calls EXCEPT ![p] =
                    [pc |-> "loaded", op |-> op, tokens |-> tokens,
                     maxTime |-> maxTime, now |-> now,
                     ref |-> IF f.state = <<>> THEN p ELSE f.state[1],
                     seen |-> StoredValue(storage, heap),
                     kind |-> "none", rateLimit |-> <<>>]]
     /\ lockHolder' = Lock_holder(l, lockHolder, p, "loaded")
     /\ UNCHANGED <<limiters, now, last, history>>

\* caller p resumes with the state object: the test, the setters, storage.save, return
KResume(p) ==
  LET l == limiters[1]
      c == calls[p]
      w == heap[c.ref][1]
      o == Limiter_onObject(l, w, c.now, c.op, c.tokens, c.maxTime)
      after == o.storage[l.id][1]
      target == IF Limiter_makesObject(l, w, c.now) THEN p ELSE c.ref
  IN /\ c.pc = "loaded"
     /\ heap' = IF target = c.ref \/ o.saved
                THEN [heap EXCEPT ![target] = <<after.state>>]
                ELSE heap
     /\ storage' = IF o.saved
                   THEN InMemoryStorage_save(
                          storage, l.id, target,
                          IF after.expiresAt = <<>> THEN 0 ELSE after.expiresAt[1])
                   ELSE storage
     /\ calls' = [calls EXCEPT ![p] =
                    [pc |-> "done", op |-> c.op, tokens |-> c.tokens,
                     maxTime |-> c.maxTime, now |-> c.now, ref |-> 0, seen |-> <<>>,
                     kind |-> o.kind, rateLimit |-> o.rateLimit]]
     /\ lockHolder' = Lock_holder(l, lockHolder, p, "done")
     /\ UNCHANGED <<limiters, now, last, history>>

\* caller p calls reset: withLock, storage.delete
KReset(p) ==
  LET l == limiters[1]
  IN /\ calls[p].pc = "idle"
     /\ InTurn(p)
     /\ Lock_mayEnter(l, lockHolder)
     /\ storage' = InMemoryStorage_delete(storage, l.id)
     /\ calls' = [calls EXCEPT ![p] =
                    [pc |-> "done", op |-> "reset", tokens |-> 0, maxTime |-> <<>>,
                     now |-> now, ref |-> 0, seen |-> <<>>, kind |-> "void",
                     rateLimit |-> <<>>]]
     /\ lockHolder' = Lock_holder(l, lockHolder, p, "done")
     /\ UNCHANGED <<limiters, now, last, history, heap>>

KNext ==
  \/ KTick
  \/ \E p \in Procs, tokens \in 1..MaxLimit : KStart(p, "consume", tokens, <<>>)
  \/ \E p \in Procs, tokens \in 1..MaxLimit, maxTime \in NoWaitMaxTimes :
       KStart(p, "reserve", tokens, maxTime)
  \/ \E p \in Procs : KResume(p)
  \/ \E p \in Procs : KReset(p)

SpecConcurrent == KInit /\ [][KNext]_vars

\* ---------------------------------------------------------------- concurrent compound calls
\* Two callers call consume(1) on a CompoundLimiter over two engines, each
\* engine with its own key and a mutual-exclusion lock. Promise.all starts an
\* engine consume per engine for each caller; under the lock of its key an
\* engine consume runs from TimeUtil.now() to its return with no other call on
\* that key in between, so it is one step. Nothing orders the steps of
\* different keys: the lock of each key is acquired on its own. When the last
\* engine result of a caller is in, Promise.all resolves and the reduction,
\* which touches no shared state, runs with that step.

\* the record of a compound call under way: the engines' results so far
\* (<<>> where the engine consume has not run yet) and the combined result
FanOutCall(results, rateLimit) == [results |-> results, rateLimit |-> rateLimit]

\* every engine can accept consume(1): nothing is stored, or what an earlier
\* consume(hits) at time 0 left, with hits < limit
FInit ==
  /\ \E l1 \in CompoundConfigs(1), l2 \in CompoundConfigs(2) : limiters = <<l1, l2>>
  /\ \E h1 \in 0..(limiters[1].limit - 1), h2 \in 0..(limiters[2].limit - 1) :
       LET empty == [id \in {1, 2} |-> <<>>]
           s1 == IF h1 = 0 THEN empty
                 ELSE Limiter_consume(limiters[1], empty, 0, h1).storage
       IN storage = IF h2 = 0 THEN s1
                    ELSE Limiter_consume(limiters[2], s1, 0, h2).storage
  /\ now = 0
  /\ last = NoCall
  /\ NoHistory
  /\ calls = [p \in Procs |-> FanOutCall(<<<<>>, <<>>>>, <<>>)]
  /\ heap = <<>>
  /\ lockHolder = 0

\* time passes
FTick ==
  /\ now < Sec(1)
  /\ now' = now + 1
  /\ UNCHANGED <<limiters, storage, last, history, concurrency>>

\* caller p's consume(1) on engine i runs under the lock of the engine's key
FEngineConsume(p, i) ==
  LET o == Limiter_consume(limiters[i], storage, now, 1)
      results == [calls[p].results EXCEPT ![i] = o.rateLimit]
      resolved == \A j \in DOMAIN results : results[j] # <<>>
  IN /\ calls[p].results[i] = <<>>
     /\ storage' = o.storage
     /\ calls' = [calls EXCEPT ![p] =
                    FanOutCall(results,
                               IF resolved
                               THEN <<CompoundLimiter_mostRestrictive(
                                        [j \in DOMAIN results |-> results[j][1]])>>
                               ELSE <<>>)]
     /\ last' = Call("consume", 1, <<>>, o)
     /\ UNCHANGED <<limiters, now, history, heap, lockHolder>>

FNext ==
  \/ FTick
  \/ \E p \in Procs, i \in 1..2 : FEngineConsume(p, i)

SpecFanOut == FInit /\ [][FNext]_vars

\* ---------------------------------------------------------------- the lock around a call
\* Callers share one engine, its key and its lock: NoLock, or a lock made as
\* the RedisLock of the integration guide ("Mutex"). withLock first awaits
\* acquire; when the lock was not acquired it throws and the callback is not
\* called; otherwise it awaits the callback and, in finally, awaits release.
\* The callback is the body of consume, reserve or reset, run here as one step
\* (how unlocked bodies interleave is the subject of the concurrent calls
\* above); a storage whose fetch rejects makes the body throw before anything
\* is read. `calls[p]` is how far caller p's call has run; `last` is the caller
\* whose call returned or threw last, and with what.

\* acquire: NoLock returns true; RedisLock returns true when SET NX wrote the key
Lock_acquire(l, holder, p) ==
  IF l.lock = "NoLock"
  THEN [acquired |-> TRUE, holder |-> holder]
  ELSE [acquired |-> holder = 0, holder |-> IF holder = 0 THEN p ELSE holder]

\* a bug: the lock is released only when the callback returned, not when it threw
Lock_release_onReturn(l, holder, kind) ==
  IF l.lock = "NoLock" \/ kind \in {"RateLimit", "Reservation", "void"}
  THEN IF l.lock = "NoLock" THEN holder ELSE 0
  ELSE holder

\* release, in the finally of withLock, whatever the callback did: NoLock does
\* nothing, RedisLock deletes the key
Lock_release(l, holder, kind) == IF l.lock = "NoLock" THEN holder ELSE 0

LockCall(pc, op, tokens, maxTime, kind) ==
  [pc |-> pc, op |-> op, tokens |-> tokens, maxTime |-> maxTime, kind |-> kind]

\* the caller whose call returned or threw last, and the kind of its result
LockedCall(p, kind) == [caller |-> p, kind |-> kind]

\* the body of the engine's operation op
Limiter_body(l, sto, t, op, tokens, maxTime) ==
  CASE op = "consume" -> Limiter_consume(l, sto, t, tokens)
    [] op = "reserve" -> Limiter_reserve(l, sto, t, tokens, maxTime)
    [] op = "reset" -> Limiter_reset(l, sto)

LInit ==
  /\ \E c \in CompoundConfigs(1), k \in LockKinds :
       /\ c.limit = MaxLimit
       /\ limiters = <<[policy |-> c.policy, id |-> c.id, limit |-> c.limit,
                        interval |-> c.interval, amount |-> c.amount, lock |-> k]>>
  /\ storage = [id \in {1} |-> <<>>]
  /\ now = 0
  /\ last = LockedCall(0, "none")
  /\ NoHistory
  /\ calls = [p \in Procs |-> LockCall("idle", "none", 0, <<>>, "none")]
  /\ heap = <<>>
  /\ lockHolder = 0

\* time passes
LTick ==
  /\ now < 1
  /\ now' = now + 1
  /\ UNCHANGED <<limiters, storage, last, history, concurrency>>

\* caller p calls consume, reserve or reset: lock.withLock(this.id, callback)
\* awaits acquire, and throws when the lock was not acquired
LWithLock(p, op, tokens, maxTime) ==
  LET a == Lock_acquire(limiters[1], lockHolder, p)
  IN /\ calls[p].pc = "idle"
     /\ lockHolder' = a.holder
     /\ IF a.acquired
        THEN /\ calls' = [calls EXCEPT ![p] =
                            LockCall("acquired", op, tokens, maxTime, "none")]
             /\ last' = last
        ELSE /\ calls' = calls
             /\ last' = LockedCall(p, "LockError")
     /\ UNCHANGED <<limiters, storage, now, history, heap>>

\* the callback of caller p runs: it returns, or throws the engine's error, or
\* throws because storage.fetch rejected
LCallback(p, storageFails) ==
  LET c == calls[p]
      o == IF storageFails
           THEN Outcome(storage, "StorageError", <<>>, <<>>, 0, 0, FALSE)
           ELSE Limiter_body(limiters[1], storage, now, c.op, c.tokens, c.maxTime)
  IN /\ c.pc = "acquired"
     /\ o.waitTime <= Sec(1)
     /\ storage' = o.storage
     /\ calls' = [calls EXCEPT ![p] =
                    LockCall("finally", c.op, c.tokens, c.maxTime, o.kind)]
     /\ UNCHANGED <<limiters, now, last, history, heap, lockHolder>>

\* finally: release, then the call returns or throws what the callback did
LFinally(p) ==
  LET c == calls[p]
  IN /\ c.pc = "finally"
     /\ lockHolder' = Lock_release(limiters[1], lockHolder, c.kind)
     /\ calls' = [calls EXCEPT ![p] = LockCall("idle", "none", 0, <<>>, "none")]
     /\ last' = LockedCall(p, c.kind)
     /\ UNCHANGED <<limiters, storage, now, history, heap>>

LNext ==
  \/ LTick
  \/ \E p \in Procs : LWithLock(p, "consume", 1, <<>>)
  \/ \E p \in Procs, tokens \in {1, MaxTokens} : LWithLock(p, "reserve", tokens, <<0>>)
  \/ \E p \in Procs : LWithLock(p, "reset", 0, <<>>)
  \/ \E p \in Procs, storageFails \in BOOLEAN : LCallback(p, storageFails)
  \/ \E p \in Procs : LFinally(p)

SpecLock == LInit /\ [][LNext]_vars

\* every callback that was started returns or throws, and every finally is run
SpecLockFair ==
  /\ SpecLock
  /\ \A p \in Procs :
       /\ WF_vars(\E storageFails \in BOOLEAN : LCallback(p, storageFails))
       /\ WF_vars(LFinally(p))

\* ---------------------------------------------------------------- claims
\* C5: every RateLimit that TokenBucketLimiter.consume or reserve produces
\* (returned, inside a Reservation, or carried by a MaxWaitDurationExceeded
\* error) has remaining tokens <= the burst size.
C5_RemainingAtMostCapacity ==
  (limiters[1].policy = "token_bucket" /\ last.rateLimit # <<>>)
    => last.rateLimit[1].availableTokens <= limiters[1].limit

\* C5 witness: a token bucket call, made after enough time for the refill to
\* exceed the burst size, that reports the full burst size as available
C5_Witness ==
  /\ limiters[1].policy = "token_bucket"
  /\ storage[1] # <<>>
  /\ last.op = "consume"
  /\ ~last.rateLimit[1].accepted
  /\ last.rateLimit[1].availableTokens = limiters[1].limit
  /\ now >= Sec(2 * limiters[1].interval)

\* C6 (as claimed): the available tokens a token bucket computes are within
\* [0, burst size], and every RateLimit an engine produces has remaining >= 0.
C6_AvailableWithinBounds ==
  /\ last.rateLimit # <<>> => last.rateLimit[1].availableTokens >= 0
  /\ (limiters[1].policy = "token_bucket" /\ last.op \in {"consume", "reserve"})
       => (last.availableTokens >= 0 /\ last.availableTokens <= limiters[1].limit)

\* C1: on a FixedWindowLimiter the tokens of the consume calls accepted within
\* one aligned window [k * interval, (k + 1) * interval) never exceed the limit.
C1_WindowSumAtMostLimit ==
  limiters[1].policy = "fixed_window" => windowHits <= limiters[1].limit

\* C1 witness: a later window is full after earlier windows were used too
C1_Witness ==
  /\ limiters[1].policy = "fixed_window"
  /\ limiters[1].limit > 1
  /\ windowHits = limiters[1].limit
  /\ granted >= 2 * limiters[1].limit
  /\ now >= Sec(limiters[1].interval)

\* C2: on a token bucket first used at t0, for every time T >= t0 the tokens
\* granted with effective time <= T (accepted consume calls at their call time,
\* reservations at their timeToAct) are at most
\* burstSize + floor((T - t0) * amount / interval).
C2_BurstThenRate ==
  (limiters[1].policy = "token_bucket" /\ firstUse # <<>>)
    => \A T \in now..Horizon :
         GrantedUpTo(T) <= limiters[1].limit
                             + Floor((T - firstUse[1]) * limiters[1].amount,
                                     Sec(limiters[1].interval))

\* C2 witness: more than the burst size was granted, part of it by a waiting
\* reservation, and the grants reach the bound at the reservation's timeToAct
C2_Witness ==
  /\ limiters[1].policy = "token_bucket"
  /\ firstUse # <<>>
  /\ granted > limiters[1].limit
  /\ \E T \in (now + 1)..Horizon :
       /\ pending[T] > 0
       /\ GrantedUpTo(T) = limiters[1].limit
                             + Floor((T - firstUse[1]) * limiters[1].amount,
                                     Sec(limiters[1].interval))

\* the two classes that report an exceeded max wait
MaxWaitExceeded == {"MaxWaitDurationExceededException", "MaxWaitDurationExceededError"}

C10_WitnessEqual ==
  /\ last.op = "reserve"
  /\ last.kind = "Reservation"
  /\ last.maxTime = <<MaxWaitTicks>>
  /\ last.waitTime = MaxWaitTicks

\* ---------------------------------------------------------------- compound claims
\* the set of the rejected results and of the accepted ones
Rejected(results) == {i \in DOMAIN results : ~results[i].accepted}
Accepted(results) == {i \in DOMAIN results : results[i].accepted}

\* C7: CompoundLimiter.consume(n) is accepted if and only if every engine's
\* consume(n) is accepted; when at least one engine rejects the result is a rejected
\* one of the engines' results whose retryAfter is the maximum over the rejected
\* results; when all accept it is an accepted one with the minimum remaining tokens.
C7_MostRestrictive ==
  last.op = "consume" =>
    LET results == last.results
        r == last.rateLimit[1]
    IN /\ r.accepted <=> Rejected(results) = {}
       /\ \E i \in DOMAIN results : r = results[i]
       /\ Rejected(results) # {} =>
            \A i \in Rejected(results) : r.retryAfter >= results[i].retryAfter
       /\ Rejected(results) = {} =>
            \A i \in Accepted(results) : r.availableTokens <= results[i].availableTokens

\* both engines reject, the second with the later retryAfter
C7_Witness ==
  /\ last.op = "consume"
  /\ Rejected(last.results) = {1, 2}
  /\ last.results[1].retryAfter < last.results[2].retryAfter
  /\ last.rateLimit[1] = last.results[2]

\* both engines accept, the second with fewer remaining tokens
C7_WitnessAccepted ==
  /\ last.op = "consume"
  /\ Accepted(last.results) = {1, 2}
  /\ last.results[2].availableTokens < last.results[1].availableTokens
  /\ last.rateLimit[1] = last.results[2]

\* the tokens engine l would find available at time t with storage sto
AvailableTo(l, sto, t) == Limiter_consume(l, sto, t, 1).availableTokens

\* C8: a compound consume(n) applies consume(n) exactly once to every engine and
\* never rolls back: each engine's stored state after the call is the one its own
\* consume(n) leaves, and every engine that accepted has n fewer tokens available,
\* also when the combined result is a rejection.
C8_NoRollback ==
  [][(last'.op = "consume" /\ now' = now) =>
       \A i \in DOMAIN limiters :
         LET l == limiters[i]
             n == last'.tokens
             o == Limiter_consume(l, storage, now, n)
         IN /\ last'.results[i] = o.rateLimit[1]
            /\ storage'[l.id] = o.storage[l.id]
            /\ o.rateLimit[1].accepted =>
                 AvailableTo(l, storage', now) = AvailableTo(l, storage, now) - n]_vars

\* the combined result is a rejection, one engine accepted and its tokens are spent
C8_Witness ==
  /\ last.op = "consume"
  /\ ~last.rateLimit[1].accepted
  /\ \E i \in Accepted(last.results) :
       /\ storage[limiters[i].id] # <<>>
       /\ AvailableTo(limiters[i], storage, now) = last.results[i].availableTokens
       /\ AvailableTo(limiters[i], storage, now) < limiters[i].limit

\* C9: CompoundLimiter.reserve fails with ReserveNotSupportedError for every tokens
\* and maxTime and in every state, and leaves every engine's stored state unchanged.
C9_ReserveNotSupported ==
  [][(last'.op = "reserve" /\ now' = now) =>
       /\ last'.kind = "ReserveNotSupportedError"
       /\ storage' = storage]_vars

\* a reserve with a maximum wait was refused while both engines hold state
C9_Witness ==
  /\ last.op = "reserve"
  /\ last.kind = "ReserveNotSupportedError"
  /\ last.maxTime # <<>>
  /\ \A i \in DOMAIN limiters : storage[limiters[i].id] # <<>>

\* ---------------------------------------------------------------- concurrency claims
\* the tokens of the consume calls of callers 1..n that read the time t and were accepted
RECURSIVE AdmittedAt(_, _)
AdmittedAt(t, n) ==
  IF n = 0
  THEN 0
  ELSE AdmittedAt(t, n - 1)
         + (IF /\ calls[n].pc = "done"
               /\ calls[n].op = "consume"
               /\ calls[n].now = t
               /\ calls[n].rateLimit[1].accepted
            THEN calls[n].tokens
            ELSE 0)

\* no caller has reset the key
NoReset == \A p \in Procs : calls[p].op # "reset"

\* the callers between their fetch and their save
MidUpdate == {p \in Procs : calls[p].pc = "loaded"}

\* what the call of caller p produces when run alone on the storage it found
Alone(p) ==
  IF calls[p].op = "consume"
  THEN Limiter_consume(limiters[1], calls[p].seen, calls[p].now, calls[p].tokens)
  ELSE Limiter_reserve(limiters[1], calls[p].seen, calls[p].now, calls[p].tokens,
                       calls[p].maxTime)

\* C3: with a lock that excludes per key, no call reads the key's state while
\* another call on the key is between its fetch and its save, the consume calls made
\* at one time are never granted more than the limit (no reset among the calls), and
\* every call returns what it
\* would return, and leaves the storage as it would leave it, when run alone on the
\* storage it found: the calls take effect one at a time, in the order of the lock.
C3_AtomicPerKey ==
  /\ [](limiters[1].lock = "Mutex" =>
          /\ Cardinality(MidUpdate) <= 1
          /\ NoReset =>
               \A t \in 0..Sec(MaxInterval) : AdmittedAt(t, NProc) <= limiters[1].limit)
  /\ [][limiters[1].lock = "Mutex" =>
          \A p \in Procs :
            (calls[p].pc = "loaded" /\ calls'[p].pc = "done") =>
              /\ calls'[p].kind = Alone(p).kind
              /\ calls'[p].rateLimit = Alone(p).rateLimit
              /\ StoredValue(storage', heap') = Alone(p).storage]_vars

\* under the lock two consume calls were made at one time on a key that had room
\* for one of them: the first was accepted, the second rejected
C3_Witness ==
  /\ limiters[1].lock = "Mutex"
  /\ \A p \in Procs : calls[p].pc = "done" /\ calls[p].op = "consume"
  /\ calls[1].now = calls[2].now
  /\ calls[1].rateLimit[1].accepted
  /\ ~calls[2].rateLimit[1].accepted
  /\ calls[2].tokens <= limiters[1].limit

\* C4: with the default NoLock and InMemoryStorage, calls made concurrently on one
\* key are never granted more than the limit: with no reset among the calls, the
\* tokens of the consume calls made at one time and accepted never exceed the limit.
C4_NoLockThreadSafe ==
  (limiters[1].lock = "NoLock" /\ NoReset) =>
    \A t \in 0..Sec(MaxInterval) : AdmittedAt(t, NProc) <= limiters[1].limit

\* ---------------------------------------------------------------- reserve claims
\* C11: on each engine, reserve(n) with n above the configured limit fails with
\* the configuration error (a plain Error), in every state and for every
\* maxTime, and returns no Reservation.
C11_AboveLimitRefused ==
  (last.op = "reserve" /\ last.tokens > limiters[1].limit)
    => (last.kind = "Error" /\ last.timeToAct = <<>> /\ last.rateLimit = <<>>)

\* a reserve above the limit, with a maxTime, was refused while the key held state
C11_Witness ==
  /\ last.op = "reserve"
  /\ last.tokens > limiters[1].limit
  /\ last.kind = "Error"
  /\ last.maxTime # <<>>
  /\ storage[1] # <<>>
  /\ now > 0

\* C12: reserve spends at reserve time on every engine: after a reserve(n) that
\* was granted a later timeToAct, the stored state has the n tokens committed, so
\* at timeToAct at most limit - n tokens are left to grant.
C12_ReserveSpendsAtReserveTime ==
  (last.op = "reserve" /\ last.kind = "Reservation" /\ last.waitTime > 0)
    => AvailableTo(limiters[1], storage, last.timeToAct[1])
         <= limiters[1].limit - last.tokens

\* C13: on a token bucket with rate amount per interval, reservations queue: when
\* a reserve(m) is granted timeToAct = t2 while a reservation granted earlier has a
\* timeToAct = a1 that is still ahead, t2 >= a1 + m * interval / amount.
C13_ReservationsQueue ==
  [][now' = now =>
       \A t2 \in DOMAIN pending :
         pending'[t2] > pending[t2] =>
           \A a1 \in DOMAIN pending :
             (a1 > now /\ pending[a1] > 0) =>
               t2 * limiters[1].amount
                 >= a1 * limiters[1].amount
                      + (pending'[t2] - pending[t2]) * Sec(limiters[1].interval)]_vars

\* two reservations are waiting, the later one a full refill of its tokens behind
C13_Witness ==
  \E a1 \in DOMAIN pending, t2 \in DOMAIN pending :
    /\ now < a1
    /\ a1 < t2
    /\ pending[a1] > 0
    /\ pending[t2] > 0
    /\ storage[1] # <<>>
    /\ storage[1][1].state = [tokens |-> 0, timer |-> t2]

\* ---------------------------------------------------------------- token bucket claims
\* the bucket a call at the time now works on: the stored one unless it is absent
\* or has expired, then a full one
BucketFound ==
  IF \/ storage[1] = <<>>
     \/ (storage[1][1].expiresAt # <<>> /\ now >= storage[1][1].expiresAt[1])
  THEN [tokens |-> limiters[1].limit, timer |-> now]
  ELSE storage[1][1].state

\* min(capacity, availableAtLastUpdate + floor((now - lastUpdateTime) * refillRate))
AvailableNow ==
  LET refill == ((now - BucketFound.timer) * limiters[1].amount)
                  \div (limiters[1].interval * TicksPerSecond)
      sum == BucketFound.tokens + refill
  IN IF sum < limiters[1].limit THEN sum ELSE limiters[1].limit

\* C14: a token bucket consume(n) at the time now with availableNow >= n returns
\* accepted with remaining = availableNow - n, retryAfter = now and limit =
\* capacity, and the stored bucket becomes (availableNow - n, now).
C14_ConsumeAccepted ==
  [][(/\ limiters[1].policy = "token_bucket"
      /\ last'.op = "consume"
      /\ now' = now
      /\ AvailableNow >= last'.tokens)
       => /\ last'.rateLimit
               = <<[availableTokens |-> AvailableNow - last'.tokens, retryAfter |-> now,
                    accepted |-> TRUE, limit |-> limiters[1].limit]>>
          /\ storage'[1] # <<>>
          /\ storage'[1][1].state
               = [tokens |-> AvailableNow - last'.tokens, timer |-> now]]_vars

\* a consume was accepted out of a bucket that had refilled in part
C14_Witness ==
  /\ limiters[1].policy = "token_bucket"
  /\ last.op = "consume"
  /\ last.rateLimit[1].accepted
  /\ now > 0
  /\ last.availableTokens < limiters[1].limit
  /\ last.rateLimit[1].availableTokens = last.availableTokens - last.tokens
  /\ storage[1][1].state = [tokens |-> last.rateLimit[1].availableTokens, timer |-> now]

\* now + ceil((n - availableNow) * interval / amount) seconds, in ticks
RetryAt(n) ==
  now + TicksPerSecond
          * (((n - AvailableNow) * limiters[1].interval + limiters[1].amount - 1)
               \div limiters[1].amount)

\* the rejected outcome of a consume(n): remaining = availableNow, retryAfter = RetryAt(n)
RejectedOutcome(n) ==
  <<[availableTokens |-> AvailableNow, retryAfter |-> RetryAt(n), accepted |-> FALSE,
     limit |-> limiters[1].limit]>>

C16_RejectedThenAcceptedAtRetry ==
  /\ [][(/\ limiters[1].policy = "token_bucket"
         /\ last.op = "consume"
         /\ last.tokens = limiters[1].limit
         /\ last.rateLimit[1].accepted
         /\ last'.op = "consume"
         /\ last'.tokens = 1
         /\ now' = now)
          => ~last'.rateLimit[1].accepted]_vars
  /\ []((/\ limiters[1].policy = "token_bucket"
         /\ last.op = "consume"
         /\ last.tokens <= limiters[1].limit
         /\ ~last.rateLimit[1].accepted)
          => /\ last.rateLimit[1].retryAfter > now
             /\ Limiter_consume(limiters[1], storage, last.rateLimit[1].retryAfter,
                                last.tokens).rateLimit[1].accepted)

\* a consume(capacity) emptied the bucket and the consume(1) right after it was
\* rejected, to be retried when one token has refilled
C16_Witness ==
  /\ limiters[1].policy = "token_bucket"
  /\ last.op = "consume"
  /\ last.tokens = 1
  /\ ~last.rateLimit[1].accepted
  /\ last.availableTokens = 0
  /\ storage[1] # <<>>
  /\ storage[1][1].state = [tokens |-> 0, timer |-> now]
  /\ last.rateLimit[1].retryAfter
       = now + Sec(Ceil(limiters[1].interval, limiters[1].amount))

\* ---------------------------------------------------------------- fixed window claims
\* the length of the interval, in ticks
IntervalLength == limiters[1].interval * TicksPerSecond

\* the entry of the key is there and has not expired at the time now
LiveEntry ==
  /\ storage[1] # <<>>
  /\ (storage[1][1].expiresAt = <<>> \/ now < storage[1][1].expiresAt[1])

\* the counter a call at the time now works on: the stored one when it is live,
\* otherwise an empty one anchored at floor(now / intervalLength) * intervalLength
WindowFound ==
  IF LiveEntry
  THEN storage[1][1].state
  ELSE [hitCount |-> 0, timer |-> (now \div IntervalLength) * IntervalLength]

\* C17: a fixed window consume(n) that is rejected returns remaining = maxHits -
\* hitCount and retryAfter = windowStart + intervalLength and leaves hitCount and
\* windowStart as they were, and a consume(m) with m <= maxHits made at that
\* retryAfter is accepted with remaining = maxHits - m.
C17_RejectedUntilBoundary ==
  [][(/\ limiters[1].policy = "fixed_window"
      /\ last'.op = "consume"
      /\ now' = now
      /\ ~last'.rateLimit[1].accepted)
       => LET retryAt == WindowFound.timer + IntervalLength
          IN /\ last'.rateLimit
                  = <<[availableTokens |-> limiters[1].limit - WindowFound.hitCount,
                       retryAfter |-> retryAt, accepted |-> FALSE,
                       limit |-> limiters[1].limit]>>
             /\ storage'[1] = IF LiveEntry THEN storage[1] ELSE <<>>
             /\ \A m \in 1..limiters[1].limit :
                  Limiter_consume(limiters[1], storage', retryAt, m).rateLimit
                    = <<[availableTokens |-> limiters[1].limit - m,
                         retryAfter |-> retryAt, accepted |-> TRUE,
                         limit |-> limiters[1].limit]>>]_vars

\* a consume was rejected part way through a window that still had room for
\* fewer tokens than it asked
C17_Witness ==
  /\ limiters[1].policy = "fixed_window"
  /\ last.op = "consume"
  /\ ~last.rateLimit[1].accepted
  /\ last.tokens <= limiters[1].limit
  /\ last.rateLimit[1].availableTokens > 0
  /\ storage[1] # <<>>
  /\ storage[1][1].state.timer < now
  /\ last.rateLimit[1].retryAfter = storage[1][1].state.timer + IntervalLength

\* C18: on a fixed window, the first call made at or after windowStart +
\* intervalLength finds the full maxHits available whatever the previous
\* hitCount was, and when it is granted n <= maxHits tokens the counter is
\* replaced by one with those n hits, anchored at
\* floor(now / intervalLength) * intervalLength: a burst of maxHits just before
\* the boundary and another just after it are both accepted.
C18_FullLimitAfterBoundary ==
  [][(/\ limiters[1].policy = "fixed_window"
      /\ storage[1] # <<>>
      /\ now >= storage[1][1].state.timer + IntervalLength
      /\ last'.op \in {"consume", "reserve"}
      /\ now' = now)
       => /\ last'.availableTokens = limiters[1].limit
          /\ last'.tokens <= limiters[1].limit
               => /\ last'.kind \in {"RateLimit", "Reservation"}
                  /\ last'.rateLimit
                       = <<[availableTokens |-> limiters[1].limit - last'.tokens,
                            retryAfter |-> now, accepted |-> TRUE,
                            limit |-> limiters[1].limit]>>
                  /\ storage'[1] # <<>>
                  /\ storage'[1][1].state
                       = [hitCount |-> last'.tokens,
                          timer |-> (now \div IntervalLength) * IntervalLength]]_vars

\* the full limit was accepted in one consume at a time past the start of a later
\* window, and the counter is anchored at the start of that window
C18_Witness ==
  /\ limiters[1].policy = "fixed_window"
  /\ last.op = "consume"
  /\ last.tokens = limiters[1].limit
  /\ last.rateLimit[1].accepted
  /\ now >= IntervalLength
  /\ now % IntervalLength # 0
  /\ storage[1][1].state
       = [hitCount |-> limiters[1].limit,
          timer |-> (now \div IntervalLength) * IntervalLength]

\* C19: every fixed-window counter that a consume or a reserve saves at time now
\* starts on a multiple of the interval length, namely
\* floor(now / intervalLength) * intervalLength, so that
\* windowStart <= now < windowStart + intervalLength.
C19_WindowsAligned ==
  (/\ limiters[1].policy = "fixed_window"
   /\ last.op \in {"consume", "reserve"}
   /\ last.saved)
    => /\ storage[1] # <<>>
       /\ storage[1][1].state.timer % IntervalLength = 0
       /\ storage[1][1].state.timer = (now \div IntervalLength) * IntervalLength
       /\ storage[1][1].state.timer <= now
       /\ now < storage[1][1].state.timer + IntervalLength

\* a reserve that has to wait saved the counter, in the middle of a later window
C19_Witness ==
  /\ limiters[1].policy = "fixed_window"
  /\ last.op = "reserve"
  /\ last.saved
  /\ last.waitTime > 0
  /\ now > IntervalLength
  /\ now % IntervalLength # 0
  /\ storage[1][1].state.timer = (now \div IntervalLength) * IntervalLength

\* ---------------------------------------------------------------- sliding window claims
\* the sliding window that a call at the current time fetches
SlidingFound == storage[1][1].state

\* the hit count that a consume has just measured: the limit less what it found
\* available
EffectiveHits == limiters[1].limit - last'.availableTokens

\* C20: before the end of its current window a sliding-window counter counts
\* floor(previousWindowHits * (1 - elapsed fraction of the window) + currentHits)
\* hits, that is currentHits plus the largest k with
\* k * interval <= previousWindowHits * (windowEndAt - now); from the end of the
\* window on, the hits of that window alone are counted, and they are what the
\* window that follows starts with as its previous hits, at elapsed fraction 0.
C20_SlidingHitCount ==
  [][(/\ limiters[1].policy = "sliding_window"
      /\ storage[1] # <<>>
      /\ now < SlidingFound.windowEndAt + IntervalLength
      /\ last'.op = "consume"
      /\ now' = now)
       => IF now < SlidingFound.windowEndAt
          THEN /\ (EffectiveHits - SlidingFound.hitCount) * IntervalLength
                    <= SlidingFound.hitCountForLastWindow
                         * (SlidingFound.windowEndAt - now)
               /\ SlidingFound.hitCountForLastWindow
                    * (SlidingFound.windowEndAt - now)
                    < (EffectiveHits - SlidingFound.hitCount + 1) * IntervalLength
          ELSE /\ EffectiveHits = SlidingFound.hitCount
               /\ last'.rateLimit[1].accepted
                    => storage'[1][1].state
                         = [hitCount |-> last'.tokens,
                            hitCountForLastWindow |-> SlidingFound.hitCount,
                            windowEndAt |-> now + IntervalLength]]_vars

\* a refused consume measured a count in which the previous window's share was
\* rounded down
C20_Witness ==
  /\ limiters[1].policy = "sliding_window"
  /\ last.op = "consume"
  /\ ~ last.rateLimit[1].accepted
  /\ storage[1] # <<>>
  /\ now < SlidingFound.windowEndAt
  /\ SlidingFound.hitCount > 0
  /\ (SlidingFound.hitCountForLastWindow * (SlidingFound.windowEndAt - now))
       % IntervalLength # 0
  /\ SlidingFound.hitCountForLastWindow * (SlidingFound.windowEndAt - now)
       > IntervalLength
  /\ limiters[1].limit - last.availableTokens
       = SlidingFound.hitCount
           + (SlidingFound.hitCountForLastWindow * (SlidingFound.windowEndAt - now))
               \div IntervalLength

\* a consume was granted at the very end of a window that had hits: the window
\* that follows starts with them as its previous hits
C20_WitnessTransition ==
  /\ limiters[1].policy = "sliding_window"
  /\ last.op = "consume"
  /\ last.rateLimit[1].accepted
  /\ SlidingFound.hitCountForLastWindow > 0
  /\ SlidingFound.windowEndAt = now + IntervalLength

\* the counter that a sliding-window call at the current time decides on, by the
\* three cases of the specification
CounterUsed ==
  IF storage[1] = <<>> \/ now >= SlidingFound.windowEndAt + IntervalLength
  THEN [hitCount |-> 0, hitCountForLastWindow |-> 0,
        windowEndAt |-> now + IntervalLength]
  ELSE IF now >= SlidingFound.windowEndAt
       THEN [hitCount |-> 0, hitCountForLastWindow |-> SlidingFound.hitCount,
             windowEndAt |-> now + IntervalLength]
       ELSE SlidingFound

\* the hits that counter counts at the current time
CounterUsedHits ==
  CounterUsed.hitCount
    + (CounterUsed.hitCountForLastWindow * (CounterUsed.windowEndAt - now))
        \div IntervalLength

\* C21: every sliding-window call decides on a fresh counter (0 hits, 0 previous
\* hits, end = now + interval) when nothing is stored or now >= stored end +
\* interval, on a transitioned counter (previous hits = stored current hits, 0
\* hits, end = now + interval) when stored end <= now < stored end + interval, and
\* on the stored counter otherwise: the available tokens it reports are the limit
\* less the hits of that counter, and what it saves is that counter, with the
\* granted tokens added when they are granted at once.
C21_CounterUsed ==
  [][(/\ limiters[1].policy = "sliding_window"
      /\ last'.op \in {"consume", "reserve"}
      /\ now' = now)
       => /\ last'.availableTokens = limiters[1].limit - CounterUsedHits
          /\ last'.saved
               => /\ storage'[1] # <<>>
                  /\ storage'[1][1].state
                       = [CounterUsed EXCEPT
                            !.hitCount = @ + (IF last'.waitTime = 0
                                              THEN last'.tokens ELSE 0)]]_vars

\* a consume found the whole limit although a counter with hits is still stored:
\* that counter ended at least one interval ago
C21_Witness ==
  /\ limiters[1].policy = "sliding_window"
  /\ last.op = "consume"
  /\ ~ last.rateLimit[1].accepted
  /\ storage[1] # <<>>
  /\ SlidingFound.hitCount > 0
  /\ now >= SlidingFound.windowEndAt + IntervalLength
  /\ last.availableTokens = limiters[1].limit

\* a reserve was granted at once on a transitioned counter
C21_WitnessTransitioned ==
  /\ limiters[1].policy = "sliding_window"
  /\ last.op = "reserve"
  /\ last.kind = "Reservation"
  /\ last.waitTime = 0
  /\ SlidingFound.hitCountForLastWindow > 0
  /\ SlidingFound.hitCount = last.tokens
  /\ SlidingFound.windowEndAt = now + IntervalLength

\* C22: a sliding window has no boundary burst: the consume calls accepted in
\* any span [t, t + interval) of the clock, aligned or not, never have more
\* than `limit` tokens between them.
C22_NoBoundaryBurst ==
  limiters[1].policy = "sliding_window"
    => \A t \in 0..now :
         AcceptedIn(t, Min(now, t + IntervalLength - 1)) <= limiters[1].limit

\* C23: a sliding-window consume(n) with n <= limit that is rejected returns the
\* end of the window it decided on as retryAfter, and the same consume(n) made at
\* that time, with nothing else done on the key in between, is accepted.
C23_RetryAtWindowEnd ==
  [][(/\ limiters[1].policy = "sliding_window"
      /\ last'.op = "consume"
      /\ last'.tokens <= limiters[1].limit
      /\ ~ last'.rateLimit[1].accepted
      /\ now' = now)
       => /\ last'.rateLimit[1].retryAfter = CounterUsed.windowEndAt
          /\ Limiter_consume(limiters[1], storage', last'.rateLimit[1].retryAfter,
                             last'.tokens).rateLimit[1].accepted]_vars

\* ---------------------------------------------------------------- engine protocol claims
\* C24: every consume and every reserve that returns its decision, accepted or
\* rejected, has written the recomputed state for the key with storage.save
\* before it returns.
C24_AlwaysPersisted ==
  (/\ last.op \in {"consume", "reserve"}
   /\ last.kind \in {"RateLimit", "Reservation"})
    => /\ last.saved
       /\ storage[1] # <<>>

\* the engines called: one alone, or those of a compound limiter
Engines == DOMAIN limiters

\* no engine has anything stored under its key
NothingStored == \A i \in Engines : storage[limiters[i].id] = <<>>

\* the smallest of the engines' limits
SmallestLimit ==
  CHOOSE m \in {limiters[i].limit : i \in Engines} :
    \A i \in Engines : m <= limiters[i].limit

Without(a) == [storage EXCEPT ![a] = <<>>]

\* C26: a consume, reserve or reset on the limiter of one key leaves what is
\* stored under every other key as it was, and its outcome is the one it has
\* when nothing is stored under the other keys: calls on different keys do not
\* affect each other, in whatever order they are made.
C26_KeysIndependent ==
  [][\A a \in {1, 2}, b \in {1, 2} :
       (a # b /\ last'.key = b /\ now' = now)
         => /\ storage'[a] = storage[a]
            /\ last'.call.op = "consume"
                 => last'.call
                      = Call("consume", last'.call.tokens, <<>>,
                             Limiter_consume(limiters[b], Without(a), now,
                                             last'.call.tokens))
            /\ last'.call.op = "reserve"
                 => last'.call
                      = Call("reserve", last'.call.tokens, last'.call.maxTime,
                             Limiter_reserve(limiters[b], Without(a), now,
                                             last'.call.tokens,
                                             last'.call.maxTime))
            /\ last'.call.op = "reset" => storage'[b] = <<>>]_vars

\* a call was made on one key while the other key has a stored state
C26_Witness ==
  /\ last.key = 2
  /\ last.call.op = "reset"
  /\ storage[2] = <<>>
  /\ storage[1] # <<>>
  /\ now > 0

\* ---------------------------------------------------------------- NoLimiter claims
\* the RateLimit of a NoLimiter: accepted, with the maximum safe integer as
\* remaining tokens and as limit
Unlimited(r) ==
  /\ r.accepted
  /\ r.availableTokens = MaxSafeInteger
  /\ r.limit = MaxSafeInteger

C27_WitnessCombined ==
  /\ last.target = "CompoundLimiter"
  /\ now > 0
  /\ ~ last.call.rateLimit[1].accepted
  /\ last.call.results[1].accepted # last.call.results[2].accepted

\* ---------------------------------------------------------------- storage contract claims
\* the entry stored under an id can still be fetched: it records no expiration,
\* or one that is not reached yet
Fetchable(id) ==
  /\ storage[id] # <<>>
  /\ \/ storage[id][1].expiresAt = <<>>
     \/ now < storage[id][1].expiresAt[1]

\* C28: save puts the state under its id, in place of what was there, with the
\* expiration the state reports (none when it reports 0); delete removes what is
\* under the id, if anything; fetch returns the state under the id when its
\* recorded expiration is not reached, and otherwise returns null and leaves no
\* entry under the id; and no call changes what is stored under another id. So
\* fetch returns the state most recently saved under the id unless it was
\* deleted since or its expiration is reached.
C28_StorageContract ==
  [][(last'.op \in {"save", "fetch", "delete"} /\ now' = now)
       => /\ \A other \in {1, 2} \ {last'.id} : storage'[other] = storage[other]
          /\ last'.op = "save"
               => /\ storage'[last'.id] # <<>>
                  /\ <<storage'[last'.id][1].state>> = last'.state
                  /\ storage'[last'.id][1].expiresAt
                       = IF last'.expirationTime > 0
                         THEN <<last'.expirationTime>>
                         ELSE <<>>
          /\ last'.op = "delete" => storage'[last'.id] = <<>>
          /\ last'.op = "fetch"
               => IF Fetchable(last'.id)
                  THEN /\ last'.result = <<storage[last'.id][1].state>>
                       /\ storage' = storage
                  ELSE /\ last'.result = <<>>
                       /\ storage'[last'.id] = <<>>]_vars

\* fetch found an entry whose expiration was reached: it returned null and the
\* entry is gone, while the other id still has its entry
C28_Witness ==
  /\ last.op = "fetch"
  /\ last.before # <<>>
  /\ last.result = <<>>
  /\ storage[last.id] = <<>>
  /\ \E other \in {1, 2} \ {last.id} : storage[other] # <<>>

\* fetch returned the state of the second save under the id
C28_WitnessFetched ==
  /\ last.op = "fetch"
  /\ last.result # <<>>
  /\ last.result[1].hitCount = MaxLimit
  /\ now > 0

\* ---------------------------------------------------------------- outcome claims
\* C29: consume never raises an error: whatever the engine and the state, it
\* returns a RateLimit, accepted exactly when the tokens asked for were
\* available; ensureAccepted turns that RateLimit into a RateLimitExceededError
\* when it is rejected and hands the same RateLimit back when it is accepted.
C29_RejectionIsAResult ==
  last.op = "consume"
    => /\ last.kind = "RateLimit"
       /\ Len(last.rateLimit) = 1
       /\ last.rateLimit[1].accepted = (last.availableTokens >= last.tokens)
       /\ RateLimit_ensureAccepted(last.rateLimit[1]).rateLimit = last.rateLimit[1]
       /\ (RateLimit_ensureAccepted(last.rateLimit[1]).kind = "RateLimitExceededError")
            = ~ last.rateLimit[1].accepted
       /\ (RateLimit_ensureAccepted(last.rateLimit[1]).kind = "RateLimit")
            = last.rateLimit[1].accepted

\* a consume within the limit was rejected, and ensureAccepted fails on its result
C29_Witness ==
  /\ last.op = "consume"
  /\ last.tokens <= limiters[1].limit
  /\ last.kind = "RateLimit"
  /\ ~ last.rateLimit[1].accepted
  /\ RateLimit_ensureAccepted(last.rateLimit[1]).kind = "RateLimitExceededError"

\* C30: the RateLimit that consume returns names the time of the call as
\* retryAfter when it is accepted, and a time strictly after the call when it is
\* rejected.
C30_RetryAfterCall ==
  (last.op = "consume" /\ last.kind = "RateLimit")
    => IF last.rateLimit[1].accepted
       THEN last.rateLimit[1].retryAfter = now
       ELSE last.rateLimit[1].retryAfter > now

\* a consume was rejected some time after the first second, with a retryAfter
\* less than a second away
C30_Witness ==
  /\ last.op = "consume"
  /\ ~ last.rateLimit[1].accepted
  /\ now > TicksPerSecond
  /\ last.rateLimit[1].retryAfter > now
  /\ last.rateLimit[1].retryAfter < now + TicksPerSecond

\* ---------------------------------------------------------------- rounding claims
\* C31: the wait for n tokens is the least whole number of seconds in which the
\* rate yields n tokens, so the tokens credited after that wait are at least n;
\* and the tokens credited after a duration d are the largest whole number not
\* above d * amount / interval, so never more than the rate yields in d.
C31_RoundingIsSafe ==
  /\ last.op = "calculateTimeForTokens"
       => /\ last.result * limiters[1].amount >= last.arg * limiters[1].interval
          /\ (last.result - 1) * limiters[1].amount
               < last.arg * limiters[1].interval
          /\ Rate_calculateNewTokensDuringInterval(limiters[1], Sec(last.result))
               >= last.arg
  /\ last.op = "calculateNewTokensDuringInterval"
       => /\ last.result * Sec(limiters[1].interval)
               <= last.arg * limiters[1].amount
          /\ (last.result + 1) * Sec(limiters[1].interval)
               > last.arg * limiters[1].amount

\* a wait that had to be rounded up was computed
C31_Witness ==
  /\ last.op = "calculateTimeForTokens"
  /\ (last.arg * limiters[1].interval) % limiters[1].amount # 0
  /\ last.arg > 1
  /\ last.result > 1

\* a credit that had to be rounded down was computed
C31_WitnessCredit ==
  /\ last.op = "calculateNewTokensDuringInterval"
  /\ (last.arg * limiters[1].amount) % Sec(limiters[1].interval) # 0
  /\ last.result > 0

\* ---------------------------------------------------------------- failure and polling claims
\* C32: a reserve that fails, with the max-wait error or with the error for
\* tokens above the limit, commits nothing: a consume made on the key afterwards,
\* at that time or later, returns what it would have returned had the failed
\* reserve not been called.
C32_FailedReserveCommitsNothing ==
  [][(/\ last'.op = "reserve"
      /\ last'.kind # "Reservation"
      /\ now' = now)
       => \A t \in now..MaxTime, n \in 1..MaxTokens :
            Limiter_consume(limiters[1], storage', t, n).rateLimit
              = Limiter_consume(limiters[1], storage, t, n).rateLimit]_vars

\* C33: rejected consume calls do not postpone the refill of a token bucket:
\* when an accepted consume emptied the bucket at t0 and only rejected consume
\* calls followed, a consume(1) at a time t >= t0 + ceil(interval / amount)
\* is accepted.
C33_RefillNotPostponed ==
  [][(/\ limiters[1].policy = "token_bucket"
      /\ firstUse # <<>>
      /\ last'.op = "consume"
      /\ last'.tokens = 1
      /\ now' = now
      /\ now >= firstUse[1] + Sec(Ceil(limiters[1].interval, limiters[1].amount)))
       => last'.rateLimit[1].accepted]_vars

\* what a later call on the key would produce from the storage sto
LaterOutcomes(sto) ==
  [t \in now..MaxTime, n \in 1..MaxTokens |->
     LET c == Limiter_consume(limiters[1], sto, t, n)
         r == Limiter_reserve(limiters[1], sto, t, n, <<>>)
     IN <<InMemoryStorage_fetch(sto, 1, t).state, c.rateLimit,
          r.kind, r.rateLimit, r.timeToAct>>]

\* C34: on FixedWindowLimiter and SlidingWindowLimiter a rejected consume has no
\* effect on the stored state: the counter the storage hands out for the key is
\* the same before and after the call (an entry that was live stays as it was,
\* bit for bit), and every later consume or reserve returns what it would have
\* returned had the rejected call not been made.
C34_RejectedConsumeNoEffect ==
  [][(/\ limiters[1].policy \in {"fixed_window", "sliding_window"}
      /\ last'.op = "consume"
      /\ ~ last'.rateLimit[1].accepted
      /\ now' = now)
       => /\ storage' = InMemoryStorage_fetch(storage, 1, now).storage
          /\ LaterOutcomes(storage') = LaterOutcomes(storage)]_vars

\* a consume was rejected on a live counter that holds hits, for tokens the
\* limit allows
C34_Witness ==
  /\ limiters[1].policy \in {"fixed_window", "sliding_window"}
  /\ last.op = "consume"
  /\ ~ last.rateLimit[1].accepted
  /\ last.tokens <= limiters[1].limit
  /\ InMemoryStorage_fetch(storage, 1, now).state # <<>>
  /\ InMemoryStorage_fetch(storage, 1, now).state[1].hitCount > 0
  /\ now > 0

\* C35: retryAfter is stable under polling: when a consume(n), for n tokens
\* the limit allows, is rejected after an earlier rejected consume(n) on the
\* key, with no accepted call, reservation or reset in between, its retryAfter
\* is not later than the earlier one.
C35_RetryAtStable ==
  [][(/\ last'.op = "consume"
      /\ ~ last'.rateLimit[1].accepted
      /\ last'.tokens <= limiters[1].limit
      /\ now' = now
      /\ pending[last'.tokens] # <<>>)
       => last'.rateLimit[1].retryAfter <= pending[last'.tokens][1]]_vars

\* ---------------------------------------------------------------- counter and expiration claims
\* C36: the stored window counters never exceed the limit: every stored fixed
\* window has 0 <= hitCount <= limit, and every stored sliding window has
\* 0 <= hitCount <= limit and 0 <= hitCountForLastWindow <= limit.
C36_CountersWithinLimit ==
  \A i \in DOMAIN storage :
    storage[i] # <<>> =>
      LET s == storage[i][1].state
          l == limiters[i]
      IN /\ l.policy = "fixed_window" => s.hitCount \in 0..l.limit
         /\ l.policy = "sliding_window"
              => /\ s.hitCount \in 0..l.limit
                 /\ s.hitCountForLastWindow \in 0..l.limit

\* a full fixed window is stored
C36_Witness ==
  /\ limiters[1].policy = "fixed_window"
  /\ storage[1] # <<>>
  /\ storage[1][1].state.hitCount = limiters[1].limit
  /\ last.op \in {"consume", "reserve"}
  /\ limiters[1].limit > 1

\* a sliding window is stored that carries a full previous window and has hits
C36_WitnessSliding ==
  /\ limiters[1].policy = "sliding_window"
  /\ storage[1] # <<>>
  /\ storage[1][1].state.hitCountForLastWindow = limiters[1].limit
  /\ storage[1][1].state.hitCount > 0

\* C37: storage expiration never changes a decision: over the same calls, for
\* tokens the limit allows, the engine on InMemoryStorage and the engine on a
\* store that never expires entries return the same results (the same kind of
\* result, the same accepted, remaining and retryAfter, the same timeToAct).
C37_ExpirationChangesNothing ==
  (last.stored.op # "none" /\ last.stored.tokens <= limiters[1].limit)
    => /\ last.stored.kind = last.kept.kind
       /\ last.stored.rateLimit = last.kept.rateLimit
       /\ last.stored.timeToAct = last.kept.timeToAct

\* ---------------------------------------------------------------- lock claims
\* C38: under a mutual-exclusion lock, of two concurrent compound consume(1)
\* calls over engines that each could accept one of them at the start, at
\* least one is accepted: they are never both rejected.
C38_NotBothRejected ==
  ~ \A p \in Procs :
      /\ calls[p].rateLimit # <<>>
      /\ ~ calls[p].rateLimit[1].accepted

\* the lock is held by a caller whose call has returned or thrown
LockLeaked == lockHolder # 0 /\ calls[lockHolder].pc = "idle"

\* C39: every engine operation releases the lock of its key on every exit
\* path: the lock is never held by a caller whose consume, reserve or reset
\* has returned or thrown (a result, the error for tokens above the limit,
\* the max-wait error, a storage error), every lock that is held becomes free,
\* and a call whose lock acquisition fails runs no body: it leaves the storage,
\* the lock and the calls under way as they were.
C39_LockAlwaysReleased ==
  /\ [](~ LockLeaked)
  /\ [][(last' # last /\ last'.kind = "LockError")
          => /\ storage' = storage
             /\ lockHolder' = lockHolder
             /\ calls' = calls]_vars
  /\ (lockHolder # 0) ~> (lockHolder = 0)

\* a call under the lock threw the max-wait error and the lock is free again
C39_Witness ==
  /\ limiters[1].lock = "Mutex"
  /\ lockHolder = 0
  /\ last.kind = "MaxWaitDurationExceededException"
  /\ calls[last.caller].pc = "idle"

\* a call threw a storage error under the lock and a later call acquired the lock
C39_WitnessLater ==
  /\ limiters[1].lock = "Mutex"
  /\ last.kind = "StorageError"
  /\ lockHolder \notin {0, last.caller}

\* a call failed to acquire the lock that another caller holds
C39_WitnessRefused ==
  /\ last.kind = "LockError"
  /\ lockHolder \notin {0, last.caller}
\* ---------------------------------------------------------------- reserve and consume
\* C40: when the requested tokens are available now (consume(n) would be
\* accepted), reserve(n, maxTime) does what that consume does, for every
\* maxTime, 0 included: it returns a Reservation with timeToAct = now and no
\* wait, whose RateLimit is the accepted RateLimit of the consume (same remaining
\* tokens, retryAfter = now), and it leaves the storage as the consume would.
C40_ReserveIsConsumeWhenAvailable ==
  [][(/\ last'.op = "reserve"
      /\ now' = now
      /\ Limiter_consume(limiters[1], storage, now, last'.tokens).rateLimit[1].accepted)
       => LET c == Limiter_consume(limiters[1], storage, now, last'.tokens)
          IN /\ last'.kind = "Reservation"
             /\ last'.timeToAct = <<now>>
             /\ last'.waitTime = 0
             /\ last'.rateLimit = c.rateLimit
             /\ last'.rateLimit[1].availableTokens
                  = last'.availableTokens - last'.tokens
             /\ storage' = c.storage]_vars

\* a reserve with maxTime 0 was granted at once on a key that had been used
C40_Witness ==
  /\ last.op = "reserve"
  /\ last.maxTime = <<0>>
  /\ last.kind = "Reservation"
  /\ last.timeToAct = <<now>>
  /\ last.availableTokens < limiters[1].limit
  /\ now > 0

====
